---- MODULE Spec2Model ----
(***************************************************************************)
(* A model of the minishell command interpreter: the tokenizer with        *)
(* quoting and $NAME expansion, the grouping of tokens into pipeline       *)
(* stages, the single-stage in-process routes (assignments, builtins,      *)
(* external programs) and the multi-stage executor that allocates pipes,   *)
(* forks one child per stage, drains the collector pipes and waits.        *)
(*                                                                         *)
(* Strings are sequences of one-character strings.  Indices are 1-based    *)
(* here and 0-based in the source: a source position p is p + 1 here, and  *)
(* std::string::npos is 0.                                                 *)
(***************************************************************************)
EXTENDS Integers, Sequences, FiniteSets, TLC

\* ------------------------------------------------------------------------
\* State
\* ------------------------------------------------------------------------

VARIABLES
    impl,          \* "shell": Shell::executeLine; "executor": Lexer::tokenize,
                   \* Parser::parse and Executor::execute called in sequence
    input,         \* the line passed to the call
    env_,          \* Shell::env_
    envAt,         \* envAt[c]: env_ when call c of the line started
    calls,         \* how many calls of the line have started
    pc,            \* where the call stands
    result,        \* the ExecResult returned
    thrown,        \* what() of the exception that left Lexer or Parser, or ""
    out,           \* what the call wrote to the output sink
    err,           \* the messages the call wrote to the error sink
    ran,           \* the argument vectors executeArgv ran in this process
    nforks,        \* processes created by this process during the call
    npipes,        \* pipes allocated by this process during the call
    stages,        \* the stages of the multi-stage path
    stageIndex,    \* the loop index of the fork loop (0-based)
    children,      \* pids, in creation order, with each child's condition
    waitIndex,     \* the loop index of the wait loop (0-based)
    lastExitCode,  \* lastExitCode of the wait loop
    fds,           \* fds[d]: how often this process closed the pipe
                   \* descriptor d it opened during the call
    prevRead,      \* prevRead / previousReadFd of the fork loop
    script,        \* the lines Shell::run was given in its stream `in`
    inStream,      \* the lines of `in` not read yet
    runLog,        \* the lines Shell::run passed to executeLine, in order,
                   \* each with the result it got
    runReturn,     \* the value Shell::run returned
    parseArg,      \* the argument of a call of Parser::parse on its own
    returned       \* what Parser::parse or Tokenizer::tokenize, called on
                   \* its own, returned or threw

vars == <<impl, input, env_, envAt, calls, pc, result, thrown, out, err, ran,
          nforks, npipes, stages, stageIndex, children, waitIndex,
          lastExitCode, fds, prevRead, script, inStream, runLog, runReturn,
          parseArg, returned>>

runVars == <<script, inStream, runLog, runReturn>>

fnVars == <<parseArg, returned>>

callVars == <<impl, input, envAt, calls, runVars, fnVars>>

\* env_ when the current call started.
envPrev == envAt[calls]

pipeVars == <<stages, stageIndex, children, waitIndex, lastExitCode>>

fdVars == <<fds, prevRead>>

\* ------------------------------------------------------------------------
\* Character classes (<cctype>, "C" locale)
\* ------------------------------------------------------------------------

Lower == {"a","b","c","d","e","f","g","h","i","j","k","l","m",
          "n","o","p","q","r","s","t","u","v","w","x","y","z"}

Upper == {"A","B","C","D","E","F","G","H","I","J","K","L","M",
          "N","O","P","Q","R","S","T","U","V","W","X","Y","Z"}

Digit == {"0","1","2","3","4","5","6","7","8","9"}

isalpha(ch) == ch \in Lower \cup Upper

isalnum(ch) == isalpha(ch) \/ ch \in Digit

isspace(ch) == ch \in {" ", "\t", "\n", "\r", "\f"}

isAlphaUnd(ch) == isalpha(ch) \/ ch = "_"

isAlnumUnd(ch) == isalnum(ch) \/ ch = "_"

\* ------------------------------------------------------------------------
\* Environment: a map from names to values (std::map vars_)
\* ------------------------------------------------------------------------

\* A variant: std::map::emplace, which keeps the value of a name that is set.
Environment_set_emplace(env, name, value) ==
    IF name \in DOMAIN env THEN env
    ELSE [n \in DOMAIN env \cup {name} |-> IF n = name THEN value ELSE env[n]]

\* A variant: operator+= on the mapped value.
Environment_set_append(env, name, value) ==
    [n \in DOMAIN env \cup {name} |->
        IF n = name
        THEN (IF name \in DOMAIN env THEN env[name] ELSE <<>>) \o value
        ELSE env[n]]

Environment_set(env, name, value) ==
    [n \in DOMAIN env \cup {name} |-> IF n = name THEN value ELSE env[n]]

Environment_get(env, name) ==
    IF name \in DOMAIN env
    THEN [has_value |-> TRUE, value |-> env[name]]
    ELSE [has_value |-> FALSE, value |-> <<>>]

EmptyEnvironment == [n \in {} |-> <<>>]

\* ------------------------------------------------------------------------
\* Tokenizer::tokenizeWithPipesAndExpansion
\* ------------------------------------------------------------------------

\* A variant: the word is pushed even when it is empty.
flush_pushesEmpty(cur, argv) == Append(argv, cur)

\* The flush lambda: a pending word is emitted only when it is not empty.
flush(cur, argv) == IF cur # <<>> THEN Append(argv, cur) ELSE argv

\* A variant: the name is the one character after the '$'.
nameEnd_oneCharacter(line, j) == j

\* The while loop of expandVarAt: the index of the last character of the
\* maximal run of name characters that starts at j.
RECURSIVE nameEnd(_, _)
nameEnd(line, j) ==
    IF j + 1 <= Len(line) /\ isAlnumUnd(line[j + 1])
    THEN nameEnd(line, j + 1)
    ELSE j

\* The expandVarAt lambda, called with line[i] = '$'.  It returns the index
\* the scan stands on afterwards (the for loop then increments it) and the
\* pending word.
expandVarAt(line, env, i, cur) ==
    LET j == i + 1 IN
    IF j > Len(line) THEN [i |-> i, cur |-> Append(cur, "$")]
    ELSE IF ~isAlphaUnd(line[j]) THEN [i |-> i, cur |-> Append(cur, "$")]
    ELSE LET e    == nameEnd(line, j)
             name == SubSeq(line, j, e)
             v    == Environment_get(env, name)
         IN  [i |-> e, cur |-> IF v.has_value THEN cur \o v.value ELSE cur]

\* The pipe token of Shell::executeLine: the one-character string "|".
PipeToken == <<"|">>

\* The for loop of the tokenizer from index i on, in state st with pending
\* word cur and the tokens argv emitted so far.  ok = FALSE is the thrown
\* std::runtime_error("unterminated quote").
RECURSIVE tokenizeFrom(_, _, _, _, _, _)
tokenizeFrom(line, env, i, st, cur, argv) ==
    IF i > Len(line)
    THEN IF st # "Normal"
         THEN [ok |-> FALSE, argv |-> <<>>]
         ELSE [ok |-> TRUE, argv |-> flush(cur, argv)]
    ELSE LET c == line[i] IN
         IF st = "Normal" THEN
            IF c = "|" THEN
               tokenizeFrom(line, env, i + 1, st, <<>>,
                            Append(flush(cur, argv), PipeToken))
            ELSE IF isspace(c) THEN
               tokenizeFrom(line, env, i + 1, st, <<>>, flush(cur, argv))
            ELSE IF c = "'" THEN
               tokenizeFrom(line, env, i + 1, "InSingle", cur, argv)
            ELSE IF c = "\"" THEN
               tokenizeFrom(line, env, i + 1, "InDouble", cur, argv)
            ELSE IF c = "$" THEN
               LET r == expandVarAt(line, env, i, cur)
               IN  tokenizeFrom(line, env, r.i + 1, st, r.cur, argv)
            ELSE tokenizeFrom(line, env, i + 1, st, Append(cur, c), argv)
         ELSE IF st = "InSingle" THEN
            IF c = "'" THEN
               tokenizeFrom(line, env, i + 1, "Normal", cur, argv)
            ELSE tokenizeFrom(line, env, i + 1, st, Append(cur, c), argv)
         ELSE \* InDouble
            IF c = "\"" THEN
               tokenizeFrom(line, env, i + 1, "Normal", cur, argv)
            ELSE IF c = "$" THEN
               LET r == expandVarAt(line, env, i, cur)
               IN  tokenizeFrom(line, env, r.i + 1, st, r.cur, argv)
            ELSE tokenizeFrom(line, env, i + 1, st, Append(cur, c), argv)

tokenizeWithPipesAndExpansion(line, env) ==
    tokenizeFrom(line, env, 1, "Normal", <<>>, <<>>)

\* ------------------------------------------------------------------------
\* Shell::executeLine, the grouping of tokens into stages (lines 267-284)
\* ------------------------------------------------------------------------

\* The for loop over the tokens from index k on, with the stage cur being
\* collected.  ok = FALSE is the return of ExecResult{2, false} for an empty
\* command before a pipe.
RECURSIVE groupStagesFrom(_, _, _, _)
groupStagesFrom(tokens, k, cur, built) ==
    IF k > Len(tokens)
    THEN [ok |-> TRUE,
          stages |-> IF cur # <<>> THEN Append(built, cur) ELSE built]
    ELSE IF tokens[k] = PipeToken
         THEN IF cur = <<>>
              THEN [ok |-> FALSE, stages |-> <<>>]
              ELSE groupStagesFrom(tokens, k + 1, <<>>, Append(built, cur))
         ELSE groupStagesFrom(tokens, k + 1, Append(cur, tokens[k]), built)

groupStages(tokens) == groupStagesFrom(tokens, 1, <<>>, <<>>)

\* ------------------------------------------------------------------------
\* Helpers of shell.cpp
\* ------------------------------------------------------------------------

RECURSIVE restIsAlnumUnd(_, _)
restIsAlnumUnd(name, i) ==
    IF i > Len(name) THEN TRUE
    ELSE IF ~isAlnumUnd(name[i]) THEN FALSE
    ELSE restIsAlnumUnd(name, i + 1)

isValidVarName(name) ==
    IF name = <<>> THEN FALSE
    ELSE IF ~isAlphaUnd(name[1]) THEN FALSE
    ELSE restIsAlnumUnd(name, 2)

\* std::string::find(ch): the index of the first ch in a, 0 when there is
\* none (npos).
RECURSIVE findFrom(_, _, _)
findFrom(a, ch, i) ==
    IF i > Len(a) THEN 0
    ELSE IF a[i] = ch THEN i
    ELSE findFrom(a, ch, i + 1)

find(a, ch) == findFrom(a, ch, 1)

\* a.substr(0, pos) and a.substr(pos + 1) around the '=' at index pos.
nameOf(a, pos) == SubSeq(a, 1, pos - 1)

valueOf(a, pos) == SubSeq(a, pos + 1, Len(a))

\* ------------------------------------------------------------------------
\* Shell::tryHandleAssignmentsOnly
\* ------------------------------------------------------------------------

\* A variant: only the first argument is validated.
validateAssignmentsFrom_firstOnly(argv, k) ==
    IF k > Len(argv) THEN [ok |-> TRUE, err |-> <<>>]
    ELSE LET pos == find(argv[k], "=") IN
         IF pos = 0 \/ pos = 1 THEN [ok |-> FALSE, err |-> <<>>]
         ELSE IF ~isValidVarName(nameOf(argv[k], pos))
              THEN [ok |-> FALSE,
                    err |-> <<"assignment error: invalid variable name">>]
              ELSE [ok |-> TRUE, err |-> <<>>]

\* The first loop from argument k on: every argument must hold an '=' that
\* is not its first character and a valid name before it.  err holds the
\* message written for an invalid name.
RECURSIVE validateAssignmentsFrom(_, _)
validateAssignmentsFrom(argv, k) ==
    IF k > Len(argv) THEN [ok |-> TRUE, err |-> <<>>]
    ELSE LET pos == find(argv[k], "=") IN
         IF pos = 0 \/ pos = 1 THEN [ok |-> FALSE, err |-> <<>>]
         ELSE IF ~isValidVarName(nameOf(argv[k], pos))
              THEN [ok |-> FALSE,
                    err |-> <<"assignment error: invalid variable name">>]
              ELSE validateAssignmentsFrom(argv, k + 1)

\* The second loop from argument k on: env_.set for each argument in order.
RECURSIVE applyAssignmentsFrom(_, _, _)
applyAssignmentsFrom(argv, k, e) ==
    IF k > Len(argv) THEN e
    ELSE LET pos == find(argv[k], "=") IN
         applyAssignmentsFrom(argv, k + 1,
             Environment_set(e, nameOf(argv[k], pos), valueOf(argv[k], pos)))

\* A variant: one loop that sets each name as soon as it is validated.
RECURSIVE validateAndApplyFrom(_, _, _)
validateAndApplyFrom(argv, k, e) ==
    IF k > Len(argv) THEN [handled |-> TRUE, env |-> e, err |-> <<>>]
    ELSE LET pos == find(argv[k], "=") IN
         IF pos = 0 \/ pos = 1
         THEN [handled |-> FALSE, env |-> e, err |-> <<>>]
         ELSE IF ~isValidVarName(nameOf(argv[k], pos))
              THEN [handled |-> FALSE, env |-> e,
                    err |-> <<"assignment error: invalid variable name">>]
              ELSE validateAndApplyFrom(argv, k + 1,
                      Environment_set(e, nameOf(argv[k], pos),
                                      valueOf(argv[k], pos)))

tryHandleAssignmentsOnly_oneLoop(argv, e) == validateAndApplyFrom(argv, 1, e)

\* handled is the returned bool, env the Environment afterwards.
tryHandleAssignmentsOnly(argv, e) ==
    LET v == validateAssignmentsFrom(argv, 1) IN
    IF v.ok
    THEN [handled |-> TRUE, env |-> applyAssignmentsFrom(argv, 1, e),
          err |-> <<>>]
    ELSE [handled |-> FALSE, env |-> e, err |-> v.err]

\* ------------------------------------------------------------------------
\* ExecResult and the in-process execution of one argument vector
\* ------------------------------------------------------------------------

ExecResult(code, exit) == [exitCode |-> code, shouldExit |-> exit]

kExitCommandNotFound == 127

kExitSignalBase == 128

\* A wait status as the W* macros read it.
Exited(code) == [kind |-> "exited", val |-> code]

Signaled(sig) == [kind |-> "signaled", val |-> sig]

OtherStatus == [kind |-> "other", val |-> 0]

\* int status = 0 that no waitpid has stored into.
NoStatus == [kind |-> "none", val |-> 0]

WIFEXITED(status) == status.kind = "exited"

WEXITSTATUS(status) == status.val

WIFSIGNALED(status) == status.kind = "signaled"

WTERMSIG(status) == status.val

\* executor.cpp, statusToExitCode.
statusToExitCode(status) ==
    IF WIFEXITED(status) THEN WEXITSTATUS(status)
    ELSE IF WIFSIGNALED(status) THEN kExitSignalBase + WTERMSIG(status)
    ELSE kExitCommandNotFound

\* A variant: the number of the signal is returned as it is.
runExternalExitCode_rawSignal(status) ==
    IF WIFEXITED(status) THEN WEXITSTATUS(status)
    ELSE IF WIFSIGNALED(status) THEN WTERMSIG(status)
    ELSE 127

\* Shell::runExternal, the mapping after its waitpid (lines 666-673).
runExternalExitCode(status) ==
    IF WIFEXITED(status) THEN WEXITSTATUS(status)
    ELSE IF WIFSIGNALED(status) THEN 128 + WTERMSIG(status)
    ELSE 127

\* What one in-process execution did: its result, what it wrote to the two
\* sinks and how many processes it created.
Outcome(res, o, e, f) ==
    [res |-> res, out |-> o, err |-> e, forks |-> f, waited |-> <<>>]

\* The outcome of an execution that forked one child and called waitpid for
\* it: waitpid failed, or it stored status.
WaitedOutcome(res, e, failed, status) ==
    [res |-> res, out |-> <<>>, err |-> e, forks |-> 1,
     waited |-> <<[state |-> IF failed THEN "unwaited" ELSE "reaped",
                   status |-> status, waitFailed |-> failed]>>]

\* Data whose content the interpreter does not decide: the working
\* directory, the bytes of standard input or of a file, the counts of wc.
CwdText == <<"<cwd>", "\n">>

DataText == <<"<data>">>

CountsText == <<"<counts>", "\n">>

builtinExit == {Outcome(ExecResult(0, TRUE), <<>>, <<>>, 0)}

\* current_path() either succeeds or throws.
builtinPwd ==
    {Outcome(ExecResult(0, FALSE), <<CwdText>>, <<>>, 0),
     Outcome(ExecResult(1, FALSE), <<>>, <<"pwd: error">>, 0)}

\* The text echo writes from argument i on (the source's loop starts at 1,
\* index 2 here) followed by the newline.
RECURSIVE echoText(_, _)
echoText(argv, i) ==
    IF i > Len(argv) THEN <<"\n">>
    ELSE (IF i > 2 THEN <<" ">> ELSE <<>>) \o argv[i] \o echoText(argv, i + 1)

builtinEcho(argv) ==
    {Outcome(ExecResult(0, FALSE), <<echoText(argv, 2)>>, <<>>, 0)}

\* The file of cat and wc either opens or does not.
builtinCat(argv) ==
    IF Len(argv) = 1
    THEN {Outcome(ExecResult(0, FALSE), <<DataText>>, <<>>, 0)}
    ELSE IF Len(argv) # 2
    THEN {Outcome(ExecResult(2, FALSE), <<>>, <<"cat: usage">>, 0)}
    ELSE {Outcome(ExecResult(1, FALSE), <<>>, <<"cat: cannot open file">>, 0),
          Outcome(ExecResult(0, FALSE), <<DataText>>, <<>>, 0)}

builtinWc(argv) ==
    IF Len(argv) = 2
    THEN {Outcome(ExecResult(1, FALSE), <<>>, <<"wc: cannot open file">>, 0),
          Outcome(ExecResult(0, FALSE), <<CountsText>>, <<>>, 0)}
    ELSE IF Len(argv) # 1
    THEN {Outcome(ExecResult(2, FALSE), <<>>, <<"wc: usage">>, 0)}
    ELSE {Outcome(ExecResult(0, FALSE), <<CountsText>>, <<>>, 0)}

\* The programs findInPath resolves: the file system holds an executable
\* sh on the search path and nothing else the lines of this model name.
Executables == {<<"s", "h">>}

findInPath(file) == file \in Executables

\* The wait statuses a child is observed to end with.
WaitStatuses == {Exited(0), Exited(42), Signaled(9), OtherStatus}

\* A variant: the fork comes before the resolution, and the child of an
\* unresolved command ends with 127.
runExternal_forksFirst(argv) ==
    {Outcome(ExecResult(127, FALSE), <<>>, <<>>, 1)}

\* Shell::runExternal: resolution fails; or fork fails; or the child runs and
\* waitpid fails or reports a status.
runExternal(argv) ==
    IF ~findInPath(argv[1])
    THEN {Outcome(ExecResult(127, FALSE), <<>>, <<"command not found">>, 0)}
    ELSE {Outcome(ExecResult(127, FALSE), <<>>, <<"fork failed">>, 0),
          WaitedOutcome(ExecResult(127, FALSE), <<"waitpid failed">>, TRUE,
                        NoStatus)}
         \cup {WaitedOutcome(ExecResult(runExternalExitCode(s), FALSE), <<>>,
                             FALSE, s)
               : s \in WaitStatuses}

\* A variant: exit is not among the builtins and is looked up as a program.
executeArgv_exitNotBuiltin(argv) ==
    LET cmd == argv[1] IN
    IF cmd = <<"c", "a", "t">> THEN builtinCat(argv)
    ELSE IF cmd = <<"e", "c", "h", "o">> THEN builtinEcho(argv)
    ELSE IF cmd = <<"w", "c">> THEN builtinWc(argv)
    ELSE IF cmd = <<"p", "w", "d">> THEN builtinPwd
    ELSE runExternal(argv)

\* Shell::executeArgv: the set of outcomes the call can have.
executeArgv(argv) ==
    LET cmd == argv[1] IN
    IF cmd = <<"c", "a", "t">> THEN builtinCat(argv)
    ELSE IF cmd = <<"e", "c", "h", "o">> THEN builtinEcho(argv)
    ELSE IF cmd = <<"w", "c">> THEN builtinWc(argv)
    ELSE IF cmd = <<"p", "w", "d">> THEN builtinPwd
    ELSE IF cmd = <<"e", "x", "i", "t">> THEN builtinExit
    ELSE runExternal(argv)

\* ------------------------------------------------------------------------
\* Tokenizer::tokenize (shell.cpp 66-120)
\* ------------------------------------------------------------------------

\* A variant: whitespace ends the pending word inside quotes too.
tokenizeStep_splitsInQuotes(st, c, cur, argv) ==
    IF isspace(c) THEN [st |-> st, cur |-> <<>>, argv |-> flush(cur, argv)]
    ELSE IF st = "Normal" THEN
        IF c = "'" THEN [st |-> "InSingle", cur |-> cur, argv |-> argv]
        ELSE IF c = "\"" THEN [st |-> "InDouble", cur |-> cur, argv |-> argv]
        ELSE [st |-> st, cur |-> Append(cur, c), argv |-> argv]
    ELSE IF st = "InSingle" THEN
        IF c = "'" THEN [st |-> "Normal", cur |-> cur, argv |-> argv]
        ELSE [st |-> st, cur |-> Append(cur, c), argv |-> argv]
    ELSE
        IF c = "\"" THEN [st |-> "Normal", cur |-> cur, argv |-> argv]
        ELSE [st |-> st, cur |-> Append(cur, c), argv |-> argv]

\* One round of the for loop, the switch on the state (lines 80-110).
tokenizeStep(st, c, cur, argv) ==
    IF st = "Normal" THEN
        IF isspace(c) THEN [st |-> st, cur |-> <<>>, argv |-> flush(cur, argv)]
        ELSE IF c = "'" THEN [st |-> "InSingle", cur |-> cur, argv |-> argv]
        ELSE IF c = "\"" THEN [st |-> "InDouble", cur |-> cur, argv |-> argv]
        ELSE [st |-> st, cur |-> Append(cur, c), argv |-> argv]
    ELSE IF st = "InSingle" THEN
        IF c = "'" THEN [st |-> "Normal", cur |-> cur, argv |-> argv]
        ELSE [st |-> st, cur |-> Append(cur, c), argv |-> argv]
    ELSE
        IF c = "\"" THEN [st |-> "Normal", cur |-> cur, argv |-> argv]
        ELSE [st |-> st, cur |-> Append(cur, c), argv |-> argv]

\* The for loop from index i on and what follows it (lines 112-118).
\* ok = FALSE is the thrown std::runtime_error("unterminated quote").
RECURSIVE tokenizeLoop(_, _, _, _, _)
tokenizeLoop(line, i, st, cur, argv) ==
    IF i > Len(line)
    THEN IF st # "Normal" THEN [ok |-> FALSE, argv |-> <<>>]
         ELSE [ok |-> TRUE, argv |-> flush(cur, argv)]
    ELSE LET n == tokenizeStep(st, line[i], cur, argv) IN
         tokenizeLoop(line, i + 1, n.st, n.cur, n.argv)

Tokenizer_tokenize(line) == tokenizeLoop(line, 1, "Normal", <<>>, <<>>)

\* ------------------------------------------------------------------------
\* Expander::expandAt, Lexer::tokenize and Parser::parse
\* ------------------------------------------------------------------------

Token(type, text) == [type |-> type, text |-> text]

\* Expander::expandAt, called with line[index] = '$': the index the scan
\* stands on afterwards and the word out.
expandAt(cur, line, index, env) ==
    LET scanIndex == index + 1 IN
    IF scanIndex > Len(line) THEN [index |-> index, out |-> Append(cur, "$")]
    ELSE IF ~isAlphaUnd(line[scanIndex])
    THEN [index |-> index, out |-> Append(cur, "$")]
    ELSE LET e     == nameEnd(line, scanIndex)
             name  == SubSeq(line, scanIndex, e)
             value == Environment_get(env, name)
         IN  [index |-> e,
              out |-> IF value.has_value THEN cur \o value.value ELSE cur]

flushCurrent(current, tokens) ==
    IF current # <<>> THEN Append(tokens, Token("Word", current)) ELSE tokens

\* The for loop of Lexer::tokenize from index on.  ok = FALSE is the thrown
\* std::runtime_error("unterminated quote").
RECURSIVE lexFrom(_, _, _, _, _, _)
lexFrom(line, env, index, state, current, tokens) ==
    IF index > Len(line)
    THEN IF state # "Normal"
         THEN [ok |-> FALSE, tokens |-> <<>>]
         ELSE [ok |-> TRUE, tokens |-> flushCurrent(current, tokens)]
    ELSE LET ch == line[index] IN
         IF state = "Normal" THEN
            IF ch = "|" THEN
               lexFrom(line, env, index + 1, state, <<>>,
                       Append(flushCurrent(current, tokens), Token("Pipe", <<>>)))
            ELSE IF ch = " " \/ ch = "\t" THEN
               lexFrom(line, env, index + 1, state, <<>>,
                       flushCurrent(current, tokens))
            ELSE IF ch = "'" THEN
               lexFrom(line, env, index + 1, "InSingle", current, tokens)
            ELSE IF ch = "\"" THEN
               lexFrom(line, env, index + 1, "InDouble", current, tokens)
            ELSE IF ch = "$" THEN
               LET r == expandAt(current, line, index, env)
               IN  lexFrom(line, env, r.index + 1, state, r.out, tokens)
            ELSE lexFrom(line, env, index + 1, state, Append(current, ch), tokens)
         ELSE IF state = "InSingle" THEN
            IF ch = "'" THEN
               lexFrom(line, env, index + 1, "Normal", current, tokens)
            ELSE lexFrom(line, env, index + 1, state, Append(current, ch), tokens)
         ELSE \* InDouble
            IF ch = "\"" THEN
               lexFrom(line, env, index + 1, "Normal", current, tokens)
            ELSE IF ch = "$" THEN
               LET r == expandAt(current, line, index, env)
               IN  lexFrom(line, env, r.index + 1, state, r.out, tokens)
            ELSE lexFrom(line, env, index + 1, state, Append(current, ch), tokens)

Lexer_tokenize(line, env) == lexFrom(line, env, 1, "Normal", <<>>, <<>>)

\* The for loop of Parser::parse from token k on.  ok = FALSE is the thrown
\* std::runtime_error("empty command in pipeline").
RECURSIVE parseFrom(_, _, _, _, _)
parseFrom(tokens, k, current, built, sawAnything) ==
    IF k > Len(tokens)
    THEN IF current # <<>>
         THEN [ok |-> TRUE, stages |-> Append(built, current)]
         ELSE IF sawAnything
              THEN [ok |-> FALSE, stages |-> <<>>]
              ELSE [ok |-> TRUE, stages |-> built]
    ELSE IF tokens[k].type = "Pipe"
         THEN IF ~sawAnything THEN [ok |-> FALSE, stages |-> <<>>]
              ELSE IF current = <<>> THEN [ok |-> FALSE, stages |-> <<>>]
              ELSE parseFrom(tokens, k + 1, <<>>, Append(built, current),
                             sawAnything)
         ELSE parseFrom(tokens, k + 1, Append(current, tokens[k].text),
                        built, TRUE)

\* A variant: a pipe at the end of the sequence is dropped.
Parser_parse_trailingPipe(tokens) ==
    IF tokens # <<>> /\ tokens[Len(tokens)].type = "Pipe"
    THEN parseFrom(SubSeq(tokens, 1, Len(tokens) - 1), 1, <<>>, <<>>, FALSE)
    ELSE parseFrom(tokens, 1, <<>>, <<>>, FALSE)

Parser_parse(tokens) == parseFrom(tokens, 1, <<>>, <<>>, FALSE)

\* ------------------------------------------------------------------------
\* The front of Shell::executeLine (lines 255-284)
\* ------------------------------------------------------------------------

\* A variant: the tokenizer's exception is swallowed and the line is taken
\* for an empty one.
executeLine_parse_swallow(l, e) ==
    LET t == tokenizeWithPipesAndExpansion(l, e) IN
    IF ~t.ok \/ t.argv = <<>> THEN [ok |-> TRUE, err |-> "", stages |-> <<>>]
    ELSE LET g == groupStages(t.argv) IN
         IF ~g.ok
         THEN [ok |-> FALSE, err |-> "parse error: empty command in pipeline",
               stages |-> <<>>]
         ELSE [ok |-> TRUE, err |-> "", stages |-> g.stages]

\* A variant: the first word, when it is an assignment, is applied before
\* the line is expanded.
executeLine_parse_assignsFirst(l, e) ==
    LET t0 == tokenizeWithPipesAndExpansion(l, e)
        a  == tryHandleAssignmentsOnly(<<t0.argv[1]>>, e)
        e1 == IF t0.ok /\ t0.argv # <<>> THEN a.env ELSE e
        t  == tokenizeWithPipesAndExpansion(l, e1)
    IN
    IF ~t.ok
    THEN [ok |-> FALSE, err |-> "parse error: unterminated quote",
          stages |-> <<>>]
    ELSE IF t.argv = <<>> THEN [ok |-> TRUE, err |-> "", stages |-> <<>>]
    ELSE LET g == groupStages(t.argv) IN
         IF ~g.ok
         THEN [ok |-> FALSE, err |-> "parse error: empty command in pipeline",
               stages |-> <<>>]
         ELSE [ok |-> TRUE, err |-> "", stages |-> g.stages]

\* Tokenize and group.  ok = FALSE is a return of ExecResult{2, false} with
\* the message err written; otherwise stages holds the stages.
executeLine_parse(l, e) ==
    LET t == tokenizeWithPipesAndExpansion(l, e) IN
    IF ~t.ok
    THEN [ok |-> FALSE, err |-> "parse error: unterminated quote",
          stages |-> <<>>]
    ELSE IF t.argv = <<>> THEN [ok |-> TRUE, err |-> "", stages |-> <<>>]
    ELSE LET g == groupStages(t.argv) IN
         IF ~g.ok
         THEN [ok |-> FALSE, err |-> "parse error: empty command in pipeline",
               stages |-> <<>>]
         ELSE [ok |-> TRUE, err |-> "", stages |-> g.stages]

\* Lexer::tokenize followed by Parser::parse.  ok = FALSE is the exception
\* what that one of them throws.
lexAndParse(l, e) ==
    LET t == Lexer_tokenize(l, e) IN
    IF ~t.ok THEN [ok |-> FALSE, what |-> "unterminated quote", stages |-> <<>>]
    ELSE LET g == Parser_parse(t.tokens) IN
         IF ~g.ok
         THEN [ok |-> FALSE, what |-> "empty command in pipeline",
               stages |-> <<>>]
         ELSE [ok |-> TRUE, what |-> "", stages |-> g.stages]

\* ------------------------------------------------------------------------
\* The multi-stage path: results, the wait loops
\* ------------------------------------------------------------------------

\* The return after a failed pipe or fork (shell.cpp 297-341, executor.cpp
\* 117-153).
setupFailureResult == ExecResult(kExitCommandNotFound, FALSE)

\* A variant: the last stage's wish to terminate is passed on, as on the
\* single-stage path.
pipelineResult_propagates(last) ==
    ExecResult(last, stages[Len(stages)][1] = <<"e", "x", "i", "t">>)

\* The return after the waits (shell.cpp 425, executor.cpp 190).
pipelineResult(last) == ExecResult(last, FALSE)

\* A variant: once a wait has failed the code stays 127.
executeLine_waitStep_sticky(last, isLast, failed, status) ==
    IF failed
    THEN [lastExitCode |-> 127, err |-> <<"waitpid failed">>]
    ELSE IF last = 127 THEN [lastExitCode |-> last, err |-> <<>>]
    ELSE [lastExitCode |-> IF isLast THEN statusToExitCode(status) ELSE last,
          err |-> <<>>]

\* One iteration of the wait loop of Shell::executeLine (lines 404-423):
\* failed tells that waitpid returned < 0, status is what it stored.
executeLine_waitStep(last, isLast, failed, status) ==
    IF failed
    THEN [lastExitCode |-> 127, err |-> <<"waitpid failed">>]
    ELSE IF WIFEXITED(status)
    THEN [lastExitCode |-> IF isLast THEN WEXITSTATUS(status) ELSE last,
          err |-> <<>>]
    ELSE IF WIFSIGNALED(status)
    THEN [lastExitCode |-> IF isLast THEN 128 + WTERMSIG(status)
                           ELSE last,
          err |-> <<>>]
    ELSE [lastExitCode |-> IF isLast THEN 127 ELSE last, err |-> <<>>]

\* A variant: the code of the last stage that did not end with 0 (pipefail).
waitAll_step_pipefail(last, isLast, failed, status) ==
    IF failed
    THEN [lastExitCode |-> IF isLast THEN kExitCommandNotFound ELSE last,
          err |-> <<"waitpid failed">>]
    ELSE [lastExitCode |-> IF statusToExitCode(status) # 0
                           THEN statusToExitCode(status)
                           ELSE last,
          err |-> <<>>]

\* One iteration of the loop of waitAll (executor.cpp 63-75).
waitAll_step(last, isLast, failed, status) ==
    IF failed
    THEN [lastExitCode |-> IF isLast THEN kExitCommandNotFound
                           ELSE last,
          err |-> <<"waitpid failed">>]
    ELSE [lastExitCode |-> IF isLast THEN statusToExitCode(status)
                           ELSE last,
          err |-> <<>>]

\* The statuses of a stage's child that did not reach its _exit: a signal
\* ended it (SIGPIPE, 13), or waitpid stores a status that is neither an
\* exit nor a signal.
killStatuses == {Signaled(13), OtherStatus}

\* Whether the stage's child flushes std::cout and std::cerr before _exit:
\* Executor::execStage does (executor.cpp 97-98), the child branch of
\* Shell::executeLine does not (shell.cpp 368-369).
flushesBeforeExit == impl = "executor"

\* A variant: the child leaves the branch of the fork without ending and
\* goes on in the code of its parent.
childExit_returns(c, o) ==
    [c EXCEPT !.state = "returned", !.forks = o.forks,
              !.waits = Len(o.waited)]

\* The end of a stage's child c whose executeArgv had outcome o:
\* _exit(r.exitCode).  What the command wrote to std::cout and was not
\* flushed is dropped with the process; forks and waits count the processes
\* the command created and the waitpid calls it made.
childExit(c, o) ==
    [c EXCEPT !.state = "terminated",
              !.status = Exited(o.res.exitCode % 256),
              !.unflushed = IF flushesBeforeExit THEN <<>> ELSE o.out,
              !.forks = o.forks,
              !.waits = Len(o.waited)]

\* The end of a stage's child by status s before its command created a
\* process.
childKilled(c, s) == [c EXCEPT !.state = "terminated", !.status = s]

\* ------------------------------------------------------------------------
\* Values of variables that hold nothing yet
\* ------------------------------------------------------------------------

NoResult == ExecResult(-1, FALSE)

\* ------------------------------------------------------------------------
\* Pipe descriptors of the calling process
\* ------------------------------------------------------------------------

Fd(p, i, e) == [pipe |-> p, stage |-> i, end |-> e]

\* The value -1 of a descriptor variable.
NoFd == Fd("none", 0, 0)

\* errPipe[e], outPipe[e], and nextPipe[e] of loop iteration i; end 0 is
\* the read end, end 1 the write end.
errPipe(e) == Fd("err", 0, e)

outPipe(e) == Fd("out", 0, e)

nextPipe(i, e) == Fd("next", i, e)

NoFds == [d \in {} |-> 0]

\* A successful pipe(): both ends are open in this process.
makePipe(f, p) ==
    [d \in DOMAIN f \cup {p[1], p[2]} |-> IF d \in DOMAIN f THEN f[d] ELSE 0]

\* close() of every descriptor of D.
closeFds(f, D) == [d \in DOMAIN f |-> IF d \in D THEN f[d] + 1 ELSE f[d]]

\* if (fd != -1) close(fd), closeIfOpen(fd).
closeIfOpen(fd) == IF fd = NoFd THEN {} ELSE {fd}

closePipe_err == {errPipe(0), errPipe(1)}

closePipe_out == {outPipe(0), outPipe(1)}

\* ------------------------------------------------------------------------
\* The lines and environments the calls are made with
\* ------------------------------------------------------------------------

MaxParts == 5

MaxWordParts == 3

MaxCommandParts == 3

MaxCalls == 2

\* Every concatenation of at most n pieces of V.
RECURSIVE LinesUpTo(_, _)
LinesUpTo(V, n) ==
    IF n = 0 THEN {<<>>}
    ELSE LET S == LinesUpTo(V, n - 1) IN S \cup {l \o v : l \in S, v \in V}

PipeVocabulary ==
    {<<"e", "x", "i", "t">>, <<"s", "h">>, <<"e", "c", "h", "o">>, <<"|">>}

PipeLines == LinesUpTo(PipeVocabulary, MaxParts)

\* Lines of assignments, valid and not, alone and as stages of a pipeline.
AssignmentVocabulary ==
    {<<"b", "=", "1">>, <<"1", "=">>, <<" ">>, <<"|">>}

AssignmentLines == LinesUpTo(AssignmentVocabulary, MaxCommandParts)

WordVocabulary ==
    {<<"a", "=">>, <<"b", "=">>, <<"b", "=", "1">>, <<"1", "=">>, <<" ">>,
     <<"$", "a">>, <<"$">>, <<"'">>, <<"\"">>, <<"|">>}

CommandVocabulary ==
    {<<"c", "a", "t">>, <<"e", "c", "h", "o">>, <<"w", "c">>,
     <<"p", "w", "d">>, <<"e", "x", "i", "t">>, <<"s", "h">>, <<"a">>,
     <<" ">>, <<"|">>}

WordLines == LinesUpTo(WordVocabulary, MaxWordParts)

CommandLines == LinesUpTo(CommandVocabulary, MaxCommandParts)

\* Lines on which one assignment refers to a name another one assigns.
ExpansionVocabulary ==
    {<<"a", "=", "1">>, <<" ">>, <<"b", "=", "$", "a">>}

ExpansionLines == LinesUpTo(ExpansionVocabulary, MaxWordParts)

Environments ==
    {EmptyEnvironment, [n \in {<<"a">>} |-> <<"|">>]}

StartOfCall ==
    /\ pc = "start"
    /\ result = NoResult
    /\ thrown = ""
    /\ out = <<>>
    /\ err = <<>>
    /\ ran = <<>>
    /\ nforks = 0
    /\ npipes = 0
    /\ stages = <<>>
    /\ stageIndex = 0
    /\ children = <<>>
    /\ waitIndex = 0
    /\ lastExitCode = 0
    /\ fds = NoFds
    /\ prevRead = NoFd

\* Shell::run has not returned.
NoReturn == NoResult.exitCode

\* executeLine is called on its own, not from Shell::run.
NoRun ==
    /\ script = <<>>
    /\ inStream = <<>>
    /\ runLog = <<>>
    /\ runReturn = NoReturn

\* No function has returned.
NotReturned == [ok |-> FALSE, pending |-> TRUE]

\* Neither Parser::parse nor Tokenizer::tokenize is called on its own.
NoFunctionCall ==
    /\ parseArg = <<>>
    /\ returned = NotReturned

Init ==
    /\ NoRun
    /\ NoFunctionCall
    /\ impl \in {"shell", "executor"}
    /\ input \in PipeLines \cup AssignmentLines
    /\ env_ = EmptyEnvironment
    /\ envAt = <<env_>>
    /\ calls = 1
    /\ StartOfCall

InitLine ==
    /\ NoRun
    /\ NoFunctionCall
    /\ impl \in {"shell", "executor"}
    /\ \/ input \in WordLines \cup ExpansionLines /\ env_ \in Environments
       \/ input \in CommandLines /\ env_ = EmptyEnvironment
    /\ envAt = <<env_>>
    /\ calls = 1
    /\ StartOfCall

\* ------------------------------------------------------------------------
\* Shell::executeLine up to the choice of the route
\* ------------------------------------------------------------------------

Return(res) ==
    /\ pc' = "ret"
    /\ result' = res

\* Lines 259-262 and 271-274: a parse error.
ExecuteLineReject ==
    /\ UNCHANGED fdVars
    /\ impl = "shell" /\ pc = "start"
    /\ LET p == executeLine_parse(input, env_) IN
       /\ ~p.ok
       /\ err' = Append(err, p.err)
       /\ Return(ExecResult(2, FALSE))
    /\ UNCHANGED <<callVars, env_, thrown, out, ran, nforks, npipes, pipeVars>>

\* Lines 264-265 and 283-284: nothing to run.
ExecuteLineEmpty ==
    /\ UNCHANGED fdVars
    /\ impl = "shell" /\ pc = "start"
    /\ LET p == executeLine_parse(input, env_) IN
       /\ p.ok /\ p.stages = <<>>
       /\ Return(ExecResult(0, FALSE))
    /\ UNCHANGED <<callVars, env_, thrown, out, err, ran, nforks, npipes,
                   pipeVars>>

\* Lines 286-292: one stage, run in this process.
ExecuteLineSingle ==
    /\ UNCHANGED fdVars
    /\ impl = "shell" /\ pc = "start"
    /\ LET p == executeLine_parse(input, env_) IN
       /\ p.ok /\ Len(p.stages) = 1
       /\ LET argv == p.stages[1]
              a    == tryHandleAssignmentsOnly(argv, env_)
          IN  IF a.handled
              THEN /\ env_' = a.env
                   /\ Return(ExecResult(0, FALSE))
                   /\ err' = err \o a.err
                   /\ UNCHANGED <<out, ran, nforks, children>>
              ELSE \E o \in executeArgv(argv) :
                   /\ env_' = a.env
                   /\ Return(o.res)
                   /\ out' = out \o o.out
                   /\ err' = err \o a.err \o o.err
                   /\ ran' = Append(ran, argv)
                   /\ nforks' = nforks + o.forks
                   /\ children' = o.waited
    /\ UNCHANGED <<callVars, thrown, npipes, stages, stageIndex, waitIndex,
                   lastExitCode>>

\* Two stages or more: on to the pipes (line 294).
ExecuteLinePipeline ==
    /\ UNCHANGED fdVars
    /\ impl = "shell" /\ pc = "start"
    /\ LET p == executeLine_parse(input, env_) IN
       /\ p.ok /\ Len(p.stages) >= 2
       /\ stages' = p.stages
    /\ pc' = "errPipe"
    /\ UNCHANGED <<callVars, env_, result, thrown, out, err, ran, nforks,
                   npipes, stageIndex, children, waitIndex, lastExitCode>>

\* ------------------------------------------------------------------------
\* Lexer, Parser and Executor::execute up to the choice of the route
\* ------------------------------------------------------------------------

\* Lexer::tokenize or Parser::parse throws; Executor::execute is not called.
LexParseThrow ==
    /\ UNCHANGED fdVars
    /\ impl = "executor" /\ pc = "start"
    /\ LET p == lexAndParse(input, env_) IN
       /\ ~p.ok
       /\ thrown' = p.what
    /\ pc' = "threw"
    /\ UNCHANGED <<callVars, env_, result, out, err, ran, nforks, npipes,
                   pipeVars>>

\* executor.cpp 106-108.
ExecutorEmpty ==
    /\ UNCHANGED fdVars
    /\ impl = "executor" /\ pc = "start"
    /\ LET p == lexAndParse(input, env_) IN
       /\ p.ok /\ p.stages = <<>>
       /\ Return(ExecResult(0, FALSE))
    /\ UNCHANGED <<callVars, env_, thrown, out, err, ran, nforks, npipes,
                   pipeVars>>

\* executor.cpp 109-111.
ExecutorSingle ==
    /\ UNCHANGED fdVars
    /\ impl = "executor" /\ pc = "start"
    /\ LET p == lexAndParse(input, env_) IN
       /\ p.ok /\ Len(p.stages) = 1
       /\ \E o \in executeArgv(p.stages[1]) :
          /\ Return(o.res)
          /\ out' = out \o o.out
          /\ err' = err \o o.err
          /\ ran' = Append(ran, p.stages[1])
          /\ nforks' = nforks + o.forks
          /\ children' = o.waited
    /\ UNCHANGED <<callVars, env_, thrown, npipes, stages, stageIndex,
                   waitIndex, lastExitCode>>

\* Two stages or more: on to the pipes (executor.cpp 113).
ExecutorPipeline ==
    /\ UNCHANGED fdVars
    /\ impl = "executor" /\ pc = "start"
    /\ LET p == lexAndParse(input, env_) IN
       /\ p.ok /\ Len(p.stages) >= 2
       /\ stages' = p.stages
    /\ pc' = "errPipe"
    /\ UNCHANGED <<callVars, env_, result, thrown, out, err, ran, nforks,
                   npipes, stageIndex, children, waitIndex, lastExitCode>>

\* ------------------------------------------------------------------------
\* The multi-stage path (shell.cpp 294-425, executor.cpp 113-190)
\* ------------------------------------------------------------------------

isLastStage(i) == i + 1 = Len(stages)

\* What the parent closes when pipe(nextPipe) fails (shell.cpp 318-323).
nextPipeFailureCloses(prev) ==
    closeIfOpen(prev) \cup closePipe_err \cup closePipe_out

\* What the parent closes when fork() of stage i fails (shell.cpp 331-340).
forkFailureCloses(i, prev) ==
    closeIfOpen(prev)
        \cup (IF isLastStage(i) THEN {} ELSE {nextPipe(i, 0), nextPipe(i, 1)})
        \cup closePipe_err \cup closePipe_out

\* A variant: the read end of the previous pipe is left open after a fork.
forkParentCloses_keepsPrevRead(i, prev) ==
    IF isLastStage(i) THEN {} ELSE {nextPipe(i, 1)}

\* What the parent closes after fork() of stage i (shell.cpp 373-377).
forkParentCloses(i, prev) ==
    closeIfOpen(prev) \cup (IF isLastStage(i) THEN {} ELSE {nextPipe(i, 1)})

\* A variant: prevRead stays the read end of the first inter-stage pipe.
forkParentPrevRead_firstPipe(i) ==
    IF isLastStage(i) THEN NoFd ELSE nextPipe(0, 0)

\* prevRead after fork() of stage i (shell.cpp 376-381).
forkParentPrevRead(i) == IF isLastStage(i) THEN NoFd ELSE nextPipe(i, 0)

\* A variant: the failure is reported and the stages forked so far are run.
AbortSetup_continues(msg) ==
    /\ err' = Append(err, msg)
    /\ pc' = "closeWrite"
    /\ result' = result

\* A failed pipe or fork: the message, the return.
AbortSetup(msg) ==
    /\ err' = Append(err, msg)
    /\ Return(setupFailureResult)

\* The pipe descriptors open in the process that forks.
openFds(f) == {d \in DOMAIN f : f[d] = 0}

\* What the child of stage i closes before it runs its command: every pipe
\* descriptor in Shell::executeLine (shell.cpp 357-366); the read ends of
\* the collectors and of the next pipe in Executor::execute (executor.cpp
\* 156-165), whose execStage closes nothing after its dup2 calls.
childCloses(i, prev) ==
    IF impl = "shell"
    THEN closeIfOpen(prev)
            \cup (IF isLastStage(i) THEN {}
                  ELSE {nextPipe(i, 0), nextPipe(i, 1)})
            \cup closePipe_err \cup closePipe_out
    ELSE {errPipe(0), outPipe(0)}
            \cup (IF isLastStage(i) THEN {} ELSE {nextPipe(i, 0)})

\* The child of stage i as its command starts: what its three standard
\* descriptors were duplicated from (NoFd: the inherited one) and the pipe
\* descriptors it still holds besides them.
forkChild(i, prev, f) ==
    [state |-> "running", status |-> NoStatus, waitFailed |-> FALSE,
     stdin |-> prev,
     stdout |-> IF isLastStage(i) THEN outPipe(1) ELSE nextPipe(i, 1),
     stderr |-> errPipe(1),
     open |-> openFds(f) \ childCloses(i, prev),
     unflushed |-> <<>>, forks |-> 0, waits |-> 0]

\* Where the fork loop goes after stage i is forked.
afterFork(i) ==
    [stageIndex |-> i + 1,
     pc |-> IF isLastStage(i) THEN "closeWrite" ELSE "nextPipe"]

\* pipe(errPipe).
MakeErrorPipe ==
    /\ pc = "errPipe"
    /\ \/ /\ npipes' = npipes + 1
          /\ fds' = makePipe(fds, <<errPipe(0), errPipe(1)>>)
          /\ pc' = "outPipe"
          /\ UNCHANGED <<result, err>>
       \/ /\ AbortSetup("pipe")
          /\ UNCHANGED <<npipes, fds>>
    /\ UNCHANGED prevRead
    /\ UNCHANGED <<callVars, env_, thrown, out, ran, nforks, pipeVars>>

\* pipe(outPipe).
MakeOutputPipe ==
    /\ pc = "outPipe"
    /\ \/ /\ npipes' = npipes + 1
          /\ fds' = makePipe(fds, <<outPipe(0), outPipe(1)>>)
          /\ pc' = "nextPipe"
          /\ UNCHANGED <<result, err>>
       \/ /\ AbortSetup("pipe")
          /\ fds' = closeFds(fds, closePipe_err)
          /\ UNCHANGED npipes
    /\ UNCHANGED prevRead
    /\ UNCHANGED <<callVars, env_, thrown, out, ran, nforks, pipeVars>>

\* The head of the fork loop: pipe(nextPipe) unless the stage is the last.
MakeNextPipe ==
    /\ pc = "nextPipe"
    /\ \/ /\ isLastStage(stageIndex)
          /\ pc' = "fork"
          /\ UNCHANGED <<result, err, npipes, fds>>
       \/ /\ ~isLastStage(stageIndex)
          /\ npipes' = npipes + 1
          /\ fds' = makePipe(fds, <<nextPipe(stageIndex, 0),
                                    nextPipe(stageIndex, 1)>>)
          /\ pc' = "fork"
          /\ UNCHANGED <<result, err>>
       \/ /\ ~isLastStage(stageIndex)
          /\ AbortSetup("pipe")
          /\ fds' = closeFds(fds, nextPipeFailureCloses(prevRead))
          /\ UNCHANGED npipes
    /\ UNCHANGED prevRead
    /\ UNCHANGED <<callVars, env_, thrown, out, ran, nforks, pipeVars>>

\* fork(): the child is recorded and the loop goes on, or the call returns.
ForkStage ==
    /\ pc = "fork"
    /\ \/ /\ nforks' = nforks + 1
          /\ children' = Append(children,
                                forkChild(stageIndex, prevRead, fds))
          /\ stageIndex' = afterFork(stageIndex).stageIndex
          /\ pc' = afterFork(stageIndex).pc
          /\ fds' = closeFds(fds, forkParentCloses(stageIndex, prevRead))
          /\ prevRead' = forkParentPrevRead(stageIndex)
          /\ UNCHANGED <<result, err>>
       \/ /\ AbortSetup("fork failed")
          /\ fds' = closeFds(fds, forkFailureCloses(stageIndex, prevRead))
          /\ UNCHANGED <<nforks, children, stageIndex, prevRead>>
    /\ UNCHANGED <<callVars, env_, thrown, out, ran, npipes, stages, waitIndex,
                   lastExitCode>>

\* A variant: the children are waited for before the collectors are read.
afterCloseWrite_waitsFirst == "wait"

\* What follows the closes of the collectors' write ends: the drains
\* (shell.cpp 397-398), then the waits (shell.cpp 404).
afterCloseWrite == "drainOut"

\* A variant: only the output collector's write end is closed.
collectorWriteEnds_outputOnly == {outPipe(1)}

\* The descriptors closed after the fork loop (shell.cpp 384-385).
collectorWriteEnds == {errPipe(1), outPipe(1)}

\* close(errPipe[1]); close(outPipe[1]).
CloseCollectorWriteEnds ==
    /\ pc = "closeWrite"
    /\ pc' = afterCloseWrite
    /\ fds' = closeFds(fds, collectorWriteEnds)
    /\ UNCHANGED prevRead
    /\ UNCHANGED <<callVars, env_, result, thrown, out, err, ran, nforks,
                   npipes, pipeVars>>

\* Whether child k still holds a descriptor of the collector's write end,
\* as a standard descriptor or as a descriptor it did not close.
holdsOutputWriteEnd(k) ==
    /\ children[k].state \in {"running", "blocked"}
    /\ outPipe(1) \in {children[k].stdout} \cup children[k].open

holdsErrorWriteEnd(k) ==
    /\ children[k].state \in {"running", "blocked"}
    /\ errPipe(1) \in {children[k].stderr} \cup children[k].open

\* This process has closed every descriptor of D it opened.
closedHere(D) == \A d \in D \cap DOMAIN fds : fds[d] >= 1

\* drainFdToStream(outPipe[0], out): read returns 0 when no write end is
\* open any more, in this process or in a child.
DrainOutput ==
    /\ UNCHANGED fdVars
    /\ pc = "drainOut"
    /\ closedHere({outPipe(1)})
    /\ \A k \in DOMAIN children : ~holdsOutputWriteEnd(k)
    /\ out' = Append(out, DataText)
    /\ pc' = "drainErr"
    /\ UNCHANGED <<callVars, env_, result, thrown, err, ran, nforks, npipes,
                   pipeVars>>

\* drainFdToStream(errPipe[0], err), then the closes of the read ends.
DrainError ==
    /\ pc = "drainErr"
    /\ closedHere({errPipe(1)})
    /\ \A k \in DOMAIN children : ~holdsErrorWriteEnd(k)
    /\ err' = Append(err, "<data>")
    /\ fds' = closeFds(fds, {outPipe(0), errPipe(0)})
    /\ pc' = "wait"
    /\ UNCHANGED prevRead
    /\ UNCHANGED <<callVars, env_, result, thrown, out, ran, nforks, npipes,
                   pipeVars>>

\* One round of drainFdToStream(errPipe[0], err) that read bytes: the error
\* pipe has room again and the writers blocked on it go on.
ReadError ==
    /\ pc = "drainErr"
    /\ \E k \in DOMAIN children : children[k].state = "blocked"
    /\ children' = [k \in DOMAIN children |->
                        IF children[k].state = "blocked"
                        THEN [children[k] EXCEPT !.state = "running"]
                        ELSE children[k]]
    /\ UNCHANGED fdVars
    /\ UNCHANGED <<callVars, env_, pc, result, thrown, out, err, ran, nforks,
                   npipes, stages, stageIndex, waitIndex, lastExitCode>>

waitStep(code, isLast, failed, status) ==
    IF impl = "shell" THEN executeLine_waitStep(code, isLast, failed, status)
    ELSE waitAll_step(code, isLast, failed, status)

\* waitpid(pids[waitIndex]): it fails, or it returns the status of the
\* child once the child has ended.  After the last one the call returns.
WaitChild ==
    /\ UNCHANGED fdVars
    /\ pc = "wait"
    /\ waitIndex < Len(children)
    /\ LET k      == waitIndex + 1
           isLast == waitIndex + 1 = Len(children)
       IN  \E failed \in BOOLEAN :
           /\ ~failed => children[k].state = "terminated"
           /\ LET w == waitStep(lastExitCode, isLast, failed,
                                children[k].status)
              IN  /\ lastExitCode' = w.lastExitCode
                  /\ err' = err \o w.err
                  /\ children' = [children EXCEPT ![k] =
                        IF failed THEN [@ EXCEPT !.waitFailed = TRUE]
                        ELSE [@ EXCEPT !.state = "reaped"]]
                  /\ waitIndex' = waitIndex + 1
                  /\ IF isLast
                     THEN Return(pipelineResult(w.lastExitCode))
                     ELSE UNCHANGED <<pc, result>>
    /\ UNCHANGED <<callVars, env_, thrown, out, ran, nforks, npipes, stages,
                   stageIndex>>

\* ------------------------------------------------------------------------
\* The children
\* ------------------------------------------------------------------------

\* The program a child has become closes its standard descriptors and
\* keeps running.
ChildCloseDescriptors(k) ==
    /\ UNCHANGED fdVars
    /\ children[k].state = "running"
    /\ findInPath(stages[k][1])
    /\ children' = [children EXCEPT ![k].state = "detached"]
    /\ UNCHANGED <<callVars, env_, pc, result, thrown, out, err, ran, nforks,
                   npipes, stages, stageIndex, waitIndex, lastExitCode>>

\* The program a child runs writes more to its standard error, the write
\* end of the error collector, than the pipe has room for: the write blocks
\* until the parent reads the pipe.
ChildBlocksOnError(k) ==
    /\ UNCHANGED fdVars
    /\ children[k].state = "running"
    /\ findInPath(stages[k][1])
    /\ children' = [children EXCEPT ![k].state = "blocked"]
    /\ UNCHANGED <<callVars, env_, pc, result, thrown, out, err, ran, nforks,
                   npipes, stages, stageIndex, waitIndex, lastExitCode>>

\* The child ends: _exit with its stage's exit code, or a signal.
ChildTerminate(k) ==
    /\ UNCHANGED fdVars
    /\ children[k].state \in {"running", "detached"}
    /\ \/ \E o \in executeArgv(stages[k]) :
             children' = [children EXCEPT ![k] = childExit(@, o)]
       \/ \E s \in killStatuses :
             children' = [children EXCEPT ![k] = childKilled(@, s)]
    /\ UNCHANGED <<callVars, env_, pc, result, thrown, out, err, ran, nforks,
                   npipes, stages, stageIndex, waitIndex, lastExitCode>>

\* ------------------------------------------------------------------------
\* The caller
\* ------------------------------------------------------------------------

\* The caller passes the same line again.
CallAgain ==
    /\ pc = "ret"
    /\ calls < MaxCalls
    /\ calls' = calls + 1
    /\ envAt' = Append(envAt, env_)
    /\ pc' = "start"
    /\ result' = NoResult
    /\ thrown' = ""
    /\ out' = <<>>
    /\ err' = <<>>
    /\ ran' = <<>>
    /\ nforks' = 0
    /\ npipes' = 0
    /\ stages' = <<>>
    /\ stageIndex' = 0
    /\ children' = <<>>
    /\ waitIndex' = 0
    /\ lastExitCode' = 0
    /\ fds' = NoFds
    /\ prevRead' = NoFd
    /\ UNCHANGED <<impl, input, env_, runVars, fnVars>>

Pipeline ==
    \/ MakeErrorPipe \/ MakeOutputPipe \/ MakeNextPipe \/ ForkStage
    \/ CloseCollectorWriteEnds \/ DrainOutput \/ ReadError \/ DrainError
    \/ WaitChild

Children ==
    \E k \in DOMAIN children :
       ChildCloseDescriptors(k) \/ ChildBlocksOnError(k) \/ ChildTerminate(k)

Next ==
    \/ ExecuteLineReject \/ ExecuteLineEmpty \/ ExecuteLineSingle
    \/ ExecuteLinePipeline
    \/ LexParseThrow \/ ExecutorEmpty \/ ExecutorSingle \/ ExecutorPipeline
    \/ Pipeline
    \/ Children

Spec == Init /\ [][Next]_vars

NextLine ==
    \/ ExecuteLineReject \/ ExecuteLineEmpty \/ ExecuteLineSingle
    \/ LexParseThrow \/ ExecutorEmpty \/ ExecutorSingle
    \/ CallAgain

SpecLine == InitLine /\ [][NextLine]_vars

\* ------------------------------------------------------------------------
\* Shell::run (shell.cpp 242-253)
\* ------------------------------------------------------------------------

MaxScript == 3

\* The lines of the scripts: an empty line, exit, a command that is not
\* found, a parse error, a pipeline.  The stream `in` of run is its own
\* stream: no command of these lines reads from it.
RunLines ==
    {<<>>, <<"e", "x", "i", "t">>, <<"a">>, <<"|">>,
     <<"s", "h", "|", "e", "x", "i", "t">>}

RECURSIVE ScriptsUpTo(_)
ScriptsUpTo(n) ==
    IF n = 0 THEN {<<>>}
    ELSE LET S == ScriptsUpTo(n - 1) IN
         S \cup {Append(sc, l) : sc \in S, l \in RunLines}

\* run is entered: nothing is read yet.
InitRun ==
    /\ NoFunctionCall
    /\ impl = "shell"
    /\ script \in ScriptsUpTo(MaxScript)
    /\ inStream = script
    /\ runLog = <<>>
    /\ runReturn = NoReturn
    /\ input = <<>>
    /\ env_ = EmptyEnvironment
    /\ envAt = <<env_>>
    /\ calls = 1
    /\ pc = "run"
    /\ result = NoResult
    /\ thrown = ""
    /\ out = <<>>
    /\ err = <<>>
    /\ ran = <<>>
    /\ nforks = 0
    /\ npipes = 0
    /\ stages = <<>>
    /\ stageIndex = 0
    /\ children = <<>>
    /\ waitIndex = 0
    /\ lastExitCode = 0
    /\ fds = NoFds
    /\ prevRead = NoFd

\* A variant: the loop also ends at a line that failed.
runStops_onFailure(r) == r.shouldExit \/ r.exitCode # 0

\* if (r.shouldExit) return r.exitCode (shell.cpp 249-250).
runStops(r) == r.shouldExit

\* The head of the loop: getline fails and run returns 0, or the line read
\* is passed to executeLine (shell.cpp 245-248, 252).
RunGetLine ==
    /\ pc = "run"
    /\ IF inStream = <<>>
       THEN /\ runReturn' = 0
            /\ pc' = "done"
            /\ UNCHANGED <<input, inStream, runLog, result, thrown, out, err,
                           ran, nforks, npipes, pipeVars, fdVars, envAt>>
       ELSE /\ input' = Head(inStream)
            /\ inStream' = Tail(inStream)
            /\ runLog' = Append(runLog,
                                [line |-> Head(inStream), res |-> NoResult])
            /\ envAt' = <<env_>>
            /\ pc' = "start"
            /\ result' = NoResult
            /\ thrown' = ""
            /\ out' = <<>>
            /\ err' = <<>>
            /\ ran' = <<>>
            /\ nforks' = 0
            /\ npipes' = 0
            /\ stages' = <<>>
            /\ stageIndex' = 0
            /\ children' = <<>>
            /\ waitIndex' = 0
            /\ lastExitCode' = 0
            /\ fds' = NoFds
            /\ prevRead' = NoFd
            /\ UNCHANGED runReturn
    /\ UNCHANGED <<impl, env_, calls, script, fnVars>>

\* executeLine has returned r: run returns r.exitCode, or the loop goes on.
RunAfterLine ==
    /\ pc = "ret"
    /\ runLog' = [runLog EXCEPT ![Len(runLog)].res = result]
    /\ IF runStops(result)
       THEN runReturn' = result.exitCode /\ pc' = "done"
       ELSE runReturn' = runReturn /\ pc' = "run"
    /\ UNCHANGED <<impl, input, env_, envAt, calls, script, inStream, result,
                   thrown, out, err, ran, nforks, npipes, pipeVars, fdVars,
                   fnVars>>

NextRun ==
    \/ RunGetLine \/ RunAfterLine
    \/ ExecuteLineReject \/ ExecuteLineEmpty \/ ExecuteLineSingle
    \/ ExecuteLinePipeline
    \/ Pipeline
    \/ Children

SpecRun == InitRun /\ [][NextRun]_vars

\* ------------------------------------------------------------------------
\* Parser::parse and Tokenizer::tokenize called on their own
\* ------------------------------------------------------------------------

MaxTokens == 4

MaxQuoteParts == 5

\* Pipe tokens and Word tokens, among them a Word whose text is a bar and
\* a Word of no characters.
TokenVocabulary ==
    {Token("Pipe", <<"|">>), Token("Word", <<"a">>), Token("Word", <<"|">>),
     Token("Word", <<>>)}

RECURSIVE TokenSequences(_)
TokenSequences(n) ==
    IF n = 0 THEN {<<>>}
    ELSE LET S == TokenSequences(n - 1) IN
         S \cup {Append(ts, t) : ts \in S, t \in TokenVocabulary}

QuoteVocabulary == {<<"a">>, <<" ">>, <<"'">>, <<"\"">>}

QuoteLines == LinesUpTo(QuoteVocabulary, MaxQuoteParts)

\* No line is being executed.
NoLine ==
    /\ NoRun
    /\ env_ = EmptyEnvironment
    /\ envAt = <<env_>>
    /\ calls = 1
    /\ result = NoResult
    /\ thrown = ""
    /\ out = <<>>
    /\ err = <<>>
    /\ ran = <<>>
    /\ nforks = 0
    /\ npipes = 0
    /\ stages = <<>>
    /\ stageIndex = 0
    /\ children = <<>>
    /\ waitIndex = 0
    /\ lastExitCode = 0
    /\ fds = NoFds
    /\ prevRead = NoFd

InitParse ==
    /\ NoLine
    /\ impl = "executor"
    /\ input = <<>>
    /\ parseArg \in TokenSequences(MaxTokens)
    /\ returned = NotReturned
    /\ pc = "parse"

\* Parser::parse(tokens) returns or throws.
ParserParse ==
    /\ pc = "parse"
    /\ returned' = Parser_parse(parseArg)
    /\ pc' = "parsed"
    /\ UNCHANGED <<impl, input, env_, envAt, calls, runVars, parseArg, result,
                   thrown, out, err, ran, nforks, npipes, pipeVars, fdVars>>

NextParse == ParserParse

SpecParse == InitParse /\ [][NextParse]_vars

InitTokenize ==
    /\ NoLine
    /\ impl = "shell"
    /\ input \in QuoteLines
    /\ parseArg = <<>>
    /\ returned = NotReturned
    /\ pc = "tokenize"

\* Tokenizer::tokenize(line) returns or throws.
TokenizerTokenize ==
    /\ pc = "tokenize"
    /\ returned' = Tokenizer_tokenize(input)
    /\ pc' = "tokenized"
    /\ UNCHANGED <<impl, input, env_, envAt, calls, runVars, parseArg, result,
                   thrown, out, err, ran, nforks, npipes, pipeVars, fdVars>>

NextTokenize == TokenizerTokenize

SpecTokenize == InitTokenize /\ [][NextTokenize]_vars

\* ------------------------------------------------------------------------
\* Vocabulary of the properties
\* ------------------------------------------------------------------------

Range(f) == {f[i] : i \in DOMAIN f}

ExitWord == <<"e", "x", "i", "t">>

BuiltinNames ==
    {<<"c", "a", "t">>, <<"e", "c", "h", "o">>, <<"w", "c">>,
     <<"p", "w", "d">>, ExitWord}

\* The call is Shell::executeLine and has returned.
Returned == impl = "shell" /\ pc = "ret"

\* The tokens and stages of the current call's line.
TokensOfCall == tokenizeWithPipesAndExpansion(input, envPrev)

ParseOfCall == executeLine_parse(input, envPrev)

SingleStage == ParseOfCall.ok /\ Len(ParseOfCall.stages) = 1

ArgvOfCall == ParseOfCall.stages[1]

\* A syntactically valid variable name.
NameOk(n) ==
    /\ n # <<>>
    /\ n[1] \in Lower \cup Upper \cup {"_"}
    /\ \A i \in 2..Len(n) : n[i] \in Lower \cup Upper \cup Digit \cup {"_"}

\* The position of the first '=' of a word that holds one.
FirstEq(a) == CHOOSE p \in 1..Len(a) : a[p] = "=" /\ \A q \in 1..(p - 1) : a[q] # "="

HasEq(a) == "=" \in Range(a)

NamePart(a) == SubSeq(a, 1, FirstEq(a) - 1)

ValuePart(a) == SubSeq(a, FirstEq(a) + 1, Len(a))

\* NAME=value with a valid NAME.
IsAssignment(a) == HasEq(a) /\ NameOk(NamePart(a))

AllAssignments(argv) == \A k \in DOMAIN argv : IsAssignment(argv[k])

AssignedNames(argv) == {NamePart(argv[k]) : k \in DOMAIN argv}

\* The value of the last argument of argv that assigns n.
LastValue(argv, n) ==
    LET K == {k \in DOMAIN argv : NamePart(argv[k]) = n}
        m == CHOOSE k \in K : \A j \in K : j <= k
    IN  ValuePart(argv[m])

\* The quote state the scan of a line ends in: a '$' never consumes a quote
\* character, so the state is decided by the quote characters alone.
RECURSIVE QuoteStateFrom(_, _, _)
QuoteStateFrom(l, i, st) ==
    IF i > Len(l) THEN st
    ELSE IF st = "Normal"
         THEN QuoteStateFrom(l, i + 1,
                 IF l[i] = "'" THEN "InSingle"
                 ELSE IF l[i] = "\"" THEN "InDouble" ELSE "Normal")
         ELSE IF st = "InSingle"
         THEN QuoteStateFrom(l, i + 1, IF l[i] = "'" THEN "Normal" ELSE st)
         ELSE QuoteStateFrom(l, i + 1, IF l[i] = "\"" THEN "Normal" ELSE st)

EndsInsideQuote(l) == QuoteStateFrom(l, 1, "Normal") # "Normal"

\* A pipe token first, last, or next to another one.
MalformedPipes(tokens) ==
    /\ tokens # <<>>
    /\ \/ tokens[1] = PipeToken
       \/ tokens[Len(tokens)] = PipeToken
       \/ \E i \in 1..(Len(tokens) - 1) :
             tokens[i] = PipeToken /\ tokens[i + 1] = PipeToken

NameChar(ch) == ch \in Lower \cup Upper \cup Digit \cup {"_"}

\* The end of the maximal run of name characters that starts at j.
RunEnd(l, j) ==
    CHOOSE e \in j..Len(l) :
        /\ \A q \in j..e : NameChar(l[q])
        /\ e = Len(l) \/ ~NameChar(l[e + 1])

\* The names a line refers to with $NAME outside single quotes.
RECURSIVE ReferencedFrom(_, _, _)
ReferencedFrom(l, i, st) ==
    IF i > Len(l) THEN {}
    ELSE IF st = "InSingle"
    THEN ReferencedFrom(l, i + 1, IF l[i] = "'" THEN "Normal" ELSE st)
    ELSE IF l[i] = "$" /\ i < Len(l) /\ l[i + 1] \in Lower \cup Upper \cup {"_"}
    THEN {SubSeq(l, i + 1, RunEnd(l, i + 1))}
             \cup ReferencedFrom(l, RunEnd(l, i + 1) + 1, st)
    ELSE IF st = "Normal"
    THEN ReferencedFrom(l, i + 1,
            IF l[i] = "'" THEN "InSingle"
            ELSE IF l[i] = "\"" THEN "InDouble" ELSE st)
    ELSE ReferencedFrom(l, i + 1, IF l[i] = "\"" THEN "Normal" ELSE st)

ReferencedNames(l) == ReferencedFrom(l, 1, "Normal")

\* The first call of the line was an assignment-only line.
ParseOfFirstCall == executeLine_parse(input, envAt[1])

FirstCallAssigns ==
    /\ ParseOfFirstCall.ok
    /\ Len(ParseOfFirstCall.stages) = 1
    /\ AllAssignments(ParseOfFirstCall.stages[1])

\* The multi-stage path has returned; N is its number of stages.
N == Len(stages)

PipelineReturned == pc = "ret" /\ N >= 2

\* Every stage was forked and every child was waited for.
FullyWaited == PipelineReturned /\ Len(children) = N /\ waitIndex = N

\* The exit code a wait status stands for.
MappedStatus(st) ==
    IF st.kind = "exited" THEN st.val
    ELSE IF st.kind = "signaled" THEN 128 + st.val
    ELSE 127

\* ------------------------------------------------------------------------
\* Properties
\* ------------------------------------------------------------------------

\* C1: a line of two or more stages never returns shouldExit = TRUE,
\* whichever stages are exit and whether the call returns after the waits
\* or after a failed pipe or fork.
C1_PipelineNeverTerminatesShell ==
    N >= 2 => (result.shouldExit = FALSE /\ (pc = "ret" => result # NoResult))

\* Every stage is exit, all were forked and waited for.
C1_Witness ==
    /\ FullyWaited
    /\ N = 3
    /\ \A k \in 1..N : stages[k] = <<ExitWord>>
    /\ result = ExecResult(0, FALSE)

\* C2: a single stage that is assignment-only or starts with a builtin name
\* creates no process; exit returns (0, TRUE) and an assignment line has
\* set its names when the call returns.
C2_SingleStageRunsInProcess ==
    (Returned /\ SingleStage) =>
        /\ (AllAssignments(ArgvOfCall) \/ ArgvOfCall[1] \in BuiltinNames)
              => nforks = 0
        /\ ArgvOfCall[1] = ExitWord => result = ExecResult(0, TRUE)
        /\ AllAssignments(ArgvOfCall) =>
              \A n \in AssignedNames(ArgvOfCall) :
                  n \in DOMAIN env_ /\ env_[n] = LastValue(ArgvOfCall, n)

\* A lone exit has returned.
C2_Witness ==
    /\ Returned
    /\ SingleStage
    /\ ArgvOfCall = <<ExitWord>>
    /\ result = ExecResult(0, TRUE)
    /\ nforks = 0

\* C3: a line whose tokens start with a pipe, end with a pipe or hold two
\* adjacent pipes returns exit code 2 with shouldExit = FALSE, and no pipe
\* is allocated and no process is created.
C3_MalformedPipesRejected ==
    (Returned /\ TokensOfCall.ok /\ MalformedPipes(TokensOfCall.argv)) =>
        /\ result = ExecResult(2, FALSE)
        /\ nforks = 0
        /\ npipes = 0

\* C4: a line whose scan ends inside a quote returns exit code 2 with
\* shouldExit = FALSE and the unterminated-quote message; nothing is run, no
\* process or pipe is created and the Environment is unchanged.
C4_UnterminatedQuoteRejected ==
    (Returned /\ EndsInsideQuote(input)) =>
        /\ result = ExecResult(2, FALSE)
        /\ err = <<"parse error: unterminated quote">>
        /\ ran = <<>>
        /\ nforks = 0
        /\ npipes = 0
        /\ stages = <<>>
        /\ env_ = envPrev

\* Words and a pipe precede the open double quote.
C4_Witness ==
    /\ Returned
    /\ EndsInsideQuote(input)
    /\ Len(input) >= 4
    /\ \E i \in 2..(Len(input) - 1) : input[i] = "|"
    /\ input[Len(input)] = "\""
    /\ result.exitCode = 2

\* C5: a single stage of NAME=value arguments with valid names runs
\* nothing, returns (0, FALSE), and leaves each assigned name with the value
\* of its last occurrence and every other name as it was.
C5_AssignmentLineSetsNames ==
    (Returned /\ SingleStage /\ AllAssignments(ArgvOfCall)) =>
        /\ ran = <<>>
        /\ nforks = 0
        /\ result = ExecResult(0, FALSE)
        /\ DOMAIN env_ = DOMAIN envPrev \cup AssignedNames(ArgvOfCall)
        /\ \A n \in AssignedNames(ArgvOfCall) :
              env_[n] = LastValue(ArgvOfCall, n)
        /\ \A n \in DOMAIN envPrev \ AssignedNames(ArgvOfCall) :
              env_[n] = envPrev[n]

\* One name assigned twice with different values, another name set before.
C5_Witness ==
    /\ Returned
    /\ SingleStage
    /\ AllAssignments(ArgvOfCall)
    /\ Len(ArgvOfCall) = 2
    /\ NamePart(ArgvOfCall[1]) = NamePart(ArgvOfCall[2])
    /\ ValuePart(ArgvOfCall[1]) # ValuePart(ArgvOfCall[2])
    /\ DOMAIN envPrev \ AssignedNames(ArgvOfCall) # {}
    /\ env_[NamePart(ArgvOfCall[2])] = ValuePart(ArgvOfCall[2])

\* C6 as stated: after the second call of an assignment-only line the
\* Environment is what it was after the first call.
C6_RepeatedAssignmentLineSameEnv ==
    (Returned /\ calls >= 2 /\ FirstCallAssigns) => env_ = envAt[2]

\* C6 as amended: the same, for a line none of whose $NAME references names
\* a variable the line assigns.
C6_RepeatedAssignmentLineNoSelfReference ==
    (/\ Returned
     /\ calls >= 2
     /\ FirstCallAssigns
     /\ ReferencedNames(input)
            \cap AssignedNames(ParseOfFirstCall.stages[1]) = {})
        => env_ = envAt[2]

\* The line assigns b from $a, a is set, and the second call has returned.
C6_Witness ==
    /\ Returned
    /\ calls = 2
    /\ FirstCallAssigns
    /\ ReferencedNames(input) = {<<"a">>}
    /\ <<"a">> \in DOMAIN envAt[1]
    /\ <<"a">> \notin AssignedNames(ParseOfFirstCall.stages[1])
    /\ envAt[2] # envAt[1]
    /\ env_ = envAt[2]

\* C7: when every argument of a single stage holds an '=' and some name is
\* not valid, no variable is set: the Environment is what it was.
C7_InvalidNameSetsNothing ==
    (/\ Returned
     /\ SingleStage
     /\ \A k \in DOMAIN ArgvOfCall : HasEq(ArgvOfCall[k])
     /\ \E k \in DOMAIN ArgvOfCall : ~NameOk(NamePart(ArgvOfCall[k])))
        => env_ = envPrev

\* A valid assignment of a name that is not set comes before an invalid one.
C7_Witness ==
    /\ Returned
    /\ SingleStage
    /\ Len(ArgvOfCall) = 2
    /\ IsAssignment(ArgvOfCall[1])
    /\ NamePart(ArgvOfCall[1]) \notin DOMAIN envPrev
    /\ HasEq(ArgvOfCall[2])
    /\ NamePart(ArgvOfCall[2]) # <<>>
    /\ ~NameOk(NamePart(ArgvOfCall[2]))
    /\ err[1] = "assignment error: invalid variable name"
    /\ env_ = envPrev

\* C8: the exit code of a fully spawned pipeline is the mapped wait status
\* of the last child (127 when its wait failed), whatever the other
\* children ended with and in whatever order the children ended.
C8_ExitCodeIsLastStage ==
    FullyWaited =>
        result.exitCode =
            IF children[N].waitFailed THEN 127
            ELSE MappedStatus(children[N].status)

\* The first two children ended with other statuses than the last.
C8_Witness ==
    /\ FullyWaited
    /\ N = 3
    /\ children[1].status = Signaled(13)
    /\ children[2].status = Exited(42)
    /\ children[3].status = Exited(0)
    /\ \A k \in 1..N : ~children[k].waitFailed
    /\ result.exitCode = 0

\* C9: a failed wait for a child that is not the last writes a message and
\* leaves the exit code to the last child's status; each failed wait writes
\* one message.
C9_EarlierWaitFailureOnlyReported ==
    FullyWaited =>
        /\ Cardinality({i \in DOMAIN err : err[i] = "waitpid failed"})
              = Cardinality({k \in 1..N : children[k].waitFailed})
        /\ ((\E k \in 1..(N - 1) : children[k].waitFailed)
               /\ ~children[N].waitFailed)
              => result.exitCode = MappedStatus(children[N].status)

\* Shell::executeLine: the wait for the first child failed, the last child
\* ended with 0.
C9_Witness ==
    /\ FullyWaited
    /\ impl = "shell"
    /\ children[1].waitFailed
    /\ ~children[N].waitFailed
    /\ children[N].status = Exited(0)
    /\ "waitpid failed" \in Range(err)
    /\ result.exitCode = 0

\* A pipe or fork of the multi-stage path has failed.
SetupFailed == "pipe" \in Range(err) \/ "fork failed" \in Range(err)

\* C10: a failed pipe or fork ends the call at that point with (127, FALSE)
\* and its message as the last one written: no stage after the failing
\* index is forked and no child is waited for; and a return before all
\* children were waited for is such an abort.
C10_SetupFailureAborts ==
    N >= 2 =>
        /\ SetupFailed =>
              /\ pc = "ret"
              /\ result = ExecResult(127, FALSE)
              /\ err[Len(err)] \in {"pipe", "fork failed"}
              /\ Len(children) = stageIndex
              /\ nforks = stageIndex
              /\ stageIndex < N
              /\ waitIndex = 0
        /\ (pc = "ret" /\ waitIndex < N) => SetupFailed

\* The fork of the third stage failed.
C10_Witness ==
    /\ PipelineReturned
    /\ N = 3
    /\ err = <<"fork failed">>
    /\ stageIndex = 2
    /\ Len(children) = 2
    /\ result = ExecResult(127, FALSE)

\* C11: when a pipe or fork fails after some stage was forked, every child
\* already forked has been waited for by the time the call returns, and
\* none is still running.
C11_AbortLeavesNoChild ==
    (PipelineReturned /\ SetupFailed) =>
        \A k \in DOMAIN children : children[k].state = "reaped"

\* C12: on every return of the multi-stage path the parent has closed each
\* pipe descriptor it opened during the call exactly once, so it holds none.
C12_DescriptorsClosedOnce ==
    PipelineReturned =>
        /\ Cardinality(DOMAIN fds) = 2 * npipes
        /\ \A d \in DOMAIN fds : fds[d] = 1

\* A fork fails at the middle stage with an inter-stage pipe behind it and
\* a fresh one before it.
C12_Witness ==
    /\ PipelineReturned
    /\ N = 3
    /\ err = <<"fork failed">>
    /\ stageIndex = 1
    /\ npipes = 4
    /\ \A d \in DOMAIN fds : fds[d] = 1

\* The line of the call yields no token.
ZeroTokens ==
    IF impl = "shell"
    THEN TokensOfCall.ok /\ TokensOfCall.argv = <<>>
    ELSE Lexer_tokenize(input, envPrev).ok
             /\ Lexer_tokenize(input, envPrev).tokens = <<>>

\* The line is empty or holds blanks only.
AllBlank(l) == \A i \in DOMAIN l : l[i] \in {" ", "\t"}

\* C13: a line that yields no token (an empty or blank line among them)
\* returns (0, FALSE), writes nothing, creates no process or pipe and leaves
\* the Environment as it was, on every call of it.
C13_EmptyLineDoesNothing ==
    (pc # "start" /\ (AllBlank(input) \/ ZeroTokens)) =>
        /\ pc = "ret"
        /\ result = ExecResult(0, FALSE)
        /\ out = <<>>
        /\ err = <<>>
        /\ ran = <<>>
        /\ nforks = 0
        /\ npipes = 0
        /\ env_ = envPrev

\* The second call of a line of blanks has returned, with a variable set.
C13_Witness ==
    /\ pc = "ret"
    /\ calls = 2
    /\ Len(input) >= 2
    /\ AllBlank(input)
    /\ env_ # EmptyEnvironment
    /\ env_ = envAt[1]
    /\ result = ExecResult(0, FALSE)
    /\ out = <<>>
    /\ err = <<>>

\* How many '|' of the line from i on stand outside quotes (inQuotes =
\* FALSE) or inside quotes (inQuotes = TRUE).
RECURSIVE PipesFrom(_, _, _, _)
PipesFrom(l, i, st, inQuotes) ==
    IF i > Len(l) THEN 0
    ELSE LET next == IF st = "Normal"
                     THEN IF l[i] = "'" THEN "InSingle"
                          ELSE IF l[i] = "\"" THEN "InDouble" ELSE st
                     ELSE IF st = "InSingle"
                     THEN IF l[i] = "'" THEN "Normal" ELSE st
                     ELSE IF l[i] = "\"" THEN "Normal" ELSE st
             here == IF l[i] = "|" /\ (st # "Normal") = inQuotes THEN 1 ELSE 0
         IN  here + PipesFrom(l, i + 1, next, inQuotes)

UnquotedPipes(l) == PipesFrom(l, 1, "Normal", FALSE)

QuotedPipes(l) == PipesFrom(l, 1, "Normal", TRUE)

\* C14: a line whose only pipe characters stand inside quotes is one stage:
\* it is not rejected as a pipeline, and what is run holds the quoted '|' in
\* an argument.
C14_QuotedPipeIsAWord ==
    (/\ Returned
     /\ ~EndsInsideQuote(input)
     /\ UnquotedPipes(input) = 0
     /\ QuotedPipes(input) > 0)
        => /\ result.exitCode # 2
           /\ \/ ran = <<>>
              \/ /\ Len(ran) = 1
                 /\ \E k \in DOMAIN ran[1] : "|" \in Range(ran[1][k])

\* What the claimed expansion makes of a text in which every character but
\* '$' is literal: $NAME with NAME the maximal run of name characters after
\* a letter or underscore is replaced by its value, by nothing when it is
\* unset; any other '$' stays.
RECURSIVE Expand(_, _)
Expand(l, e) ==
    IF l = <<>> THEN <<>>
    ELSE IF l[1] = "$" /\ Len(l) >= 2 /\ l[2] \in Lower \cup Upper \cup {"_"}
    THEN LET r    == RunEnd(l, 2)
             name == SubSeq(l, 2, r)
         IN  (IF name \in DOMAIN e THEN e[name] ELSE <<>>)
                 \o Expand(SubSeq(l, r + 1, Len(l)), e)
    ELSE <<l[1]>> \o Expand(Tail(l), e)

\* A line that is one unquoted word, one double-quoted text or one
\* single-quoted text.
Unquoted(l) == \A i \in DOMAIN l : l[i] \notin {" ", "\t", "'", "\"", "|"}

QuotedWith(l, q) ==
    /\ Len(l) >= 2
    /\ l[1] = q
    /\ l[Len(l)] = q
    /\ \A i \in 2..(Len(l) - 1) : l[i] # q

Body(l) == SubSeq(l, 2, Len(l) - 1)

OneWordLine(l) == Unquoted(l) \/ QuotedWith(l, "\"") \/ QuotedWith(l, "'")

\* The word the claim says such a line is.
WordOfLine(l, e) ==
    IF Unquoted(l) THEN Expand(l, e)
    ELSE IF QuotedWith(l, "\"") THEN Expand(Body(l), e)
    ELSE Body(l)

ClaimedWord == WordOfLine(input, envPrev)

\* The word goes to the stage grouping of Shell::executeLine as a pipe.
ReadAsPipe == impl = "shell" /\ ClaimedWord = <<"|">>

\* The call took the line as the claimed word.
ClaimedWordTaken ==
    /\ pc \in {"start", "ret"}
    /\ pc = "ret" =>
          IF ClaimedWord = <<>>
          THEN ran = <<>> /\ env_ = envPrev /\ result = ExecResult(0, FALSE)
          ELSE IF impl = "shell" /\ IsAssignment(ClaimedWord)
          THEN /\ ran = <<>>
               /\ DOMAIN env_ = DOMAIN envPrev \cup {NamePart(ClaimedWord)}
               /\ env_[NamePart(ClaimedWord)] = ValuePart(ClaimedWord)
          ELSE ran = <<<<ClaimedWord>>>>

\* C15: a one-word line is the word the claimed expansion gives: nothing is
\* run when the word is empty, Shell::executeLine applies it when it is an
\* assignment, and otherwise it is the one argument that is run.  No such
\* line is an error of the scan.
C15_ExpansionAtDollar ==
    (OneWordLine(input) /\ ~ReadAsPipe) => ClaimedWordTaken

\* Expander::expandAt in a double-quoted text: the value of the name that
\* is set is the word that is run.
C15_Witness ==
    /\ pc = "ret"
    /\ impl = "executor"
    /\ QuotedWith(input, "\"")
    /\ ReferencedNames(input) = {<<"a">>}
    /\ <<"a">> \in DOMAIN envPrev
    /\ ClaimedWord = envPrev[<<"a">>]
    /\ ran = <<<<ClaimedWord>>>>

\* C16: the value of a variable is appended as it is: a one-word line that
\* refers to a set variable outside single quotes is one word, one stage,
\* whatever the value holds.
C16_ExpansionIsSinglePass ==
    (/\ OneWordLine(input)
     /\ ~QuotedWith(input, "'")
     /\ ReferencedNames(input) \cap DOMAIN envPrev # {})
        => ClaimedWordTaken

\* The stages of the call's line, as the implementation called parses it.
StagesOfCall ==
    IF impl = "shell" THEN ParseOfCall
    ELSE [ok |-> lexAndParse(input, envPrev).ok,
          stages |-> lexAndParse(input, envPrev).stages]

FirstStage == StagesOfCall.stages[1]

\* One stage that is no assignment-only line for Shell::executeLine, whose
\* first word is no builtin name and resolves to no executable.
UnresolvedCommand ==
    /\ StagesOfCall.ok
    /\ Len(StagesOfCall.stages) = 1
    /\ impl = "shell" => ~AllAssignments(FirstStage)
    /\ FirstStage[1] \notin BuiltinNames
    /\ FirstStage[1] \notin Executables

\* C17: a single stage that is no assignment line, no builtin and resolves
\* to no executable writes 'command not found', returns (127, FALSE) and
\* creates no process.
C17_CommandNotFound ==
    (pc = "ret" /\ UnresolvedCommand) =>
        /\ result = ExecResult(127, FALSE)
        /\ err # <<>>
        /\ err[Len(err)] = "command not found"
        /\ out = <<>>
        /\ nforks = 0
        /\ npipes = 0
        /\ env_ = envPrev

\* Shell::executeLine ran an unknown command with an argument.
C17_Witness ==
    /\ Returned
    /\ UnresolvedCommand
    /\ Len(FirstStage) = 2
    /\ ran = <<FirstStage>>
    /\ result = ExecResult(127, FALSE)
    /\ err = <<"command not found">>
    /\ nforks = 0

\* The single-stage path ran an external program: it forked one child and
\* called waitpid for it.
ExternalReturned == pc = "ret" /\ N = 0 /\ Len(children) = 1

\* C18: the child of a single external command and the last child of a
\* pipeline give the result by the same mapping: exit status s gives s,
\* signal n gives 128 + n, any other status and a failed wait give 127;
\* shouldExit is FALSE.
C18_SameStatusMapping ==
    (ExternalReturned \/ FullyWaited) =>
        LET c == children[Len(children)] IN
        result = ExecResult(IF c.waitFailed THEN 127
                            ELSE MappedStatus(c.status),
                            FALSE)

\* A single external command was ended by a signal.
C18_Witness ==
    /\ ExternalReturned
    /\ children[1].status = Signaled(9)
    /\ ~children[1].waitFailed
    /\ result = ExecResult(137, FALSE)

\* Child k has been the subject of a waitpid call.
WaitedFor(k) == children[k].state = "reaped" \/ children[k].waitFailed

\* C19: on the multi-stage path no child is waited for before both
\* collector pipes were read to their end, and the children waited for are
\* always the first ones in creation order.
C19_DrainBeforeWait ==
    N >= 2 =>
        /\ (waitIndex > 0 \/ \E k \in DOMAIN children : WaitedFor(k)) =>
              /\ out = <<DataText>>
              /\ "<data>" \in Range(err)
              /\ fds[outPipe(0)] = 1
              /\ fds[errPipe(0)] = 1
        /\ \A k \in DOMAIN children : WaitedFor(k) <=> k <= waitIndex

\* The first child of three has been waited for, the others not yet.
C19_Witness ==
    /\ N = 3
    /\ pc = "wait"
    /\ waitIndex = 1
    /\ WaitedFor(1)
    /\ ~WaitedFor(2)
    /\ ~WaitedFor(3)
    /\ out = <<DataText>>
    /\ "<data>" \in Range(err)

\* The parent holds no write end of a pipe it opened.
ParentHoldsNoWriteEnd == \A d \in DOMAIN fds : d.end = 1 => fds[d] = 1

\* C20: while the parent drains it holds no write end of a collector or
\* inter-stage pipe, so the read of a collector ends once no child holds
\* its write end.
C20_NoWriteEndWhileDraining ==
    /\ pc = "drainOut" =>
          /\ ParentHoldsNoWriteEnd
          /\ (\A k \in DOMAIN children : ~holdsOutputWriteEnd(k))
                => ENABLED DrainOutput
    /\ pc = "drainErr" =>
          /\ ParentHoldsNoWriteEnd
          /\ (\A k \in DOMAIN children : ~holdsErrorWriteEnd(k))
                => ENABLED DrainError

\* Three stages, two inter-stage pipes: the drain of the output collector
\* can end while a child that closed its descriptors still runs.
C20_Witness ==
    /\ pc = "drainOut"
    /\ N = 3
    /\ npipes = 4
    /\ ParentHoldsNoWriteEnd
    /\ \E k \in DOMAIN children : children[k].state = "detached"
    /\ \A k \in DOMAIN children : ~holdsOutputWriteEnd(k)
    /\ ENABLED DrainOutput

\* C21: a launched pipeline always runs to completion: as long as the parent
\* drains the collectors or waits, the parent or some stage can take a
\* step, also when a stage writes more to its standard error than the error
\* pipe can buffer.
C21_LaunchedPipelineNeverStuck ==
    pc \in {"drainOut", "drainErr", "wait"} => ENABLED (Pipeline \/ Children)

\* C22: the stages are forked left to right and wired forward only: the
\* first stage keeps the inherited standard input, every later stage reads
\* the read end of the pipe whose write end is the standard output of the
\* stage before it, a pipe made before that stage was forked; only the last
\* stage writes to the output collector, and every stage's standard error
\* is the one error collector.
C22_StagesWiredForward ==
    N >= 2 =>
        /\ Len(children) <= N
        /\ pc \in {"nextPipe", "fork"} => Len(children) = stageIndex
        /\ \A k \in DOMAIN children :
              /\ children[k].stderr = errPipe(1)
              /\ children[k].stdin =
                    IF k = 1 THEN NoFd ELSE nextPipe(k - 2, 0)
              /\ k > 1 => children[k - 1].stdout = nextPipe(k - 2, 1)
              /\ children[k].stdout = outPipe(1) <=> k = N
              /\ children[k].stdout \in DOMAIN fds

\* Three stages are forked: the third reads the pipe the second writes.
C22_Witness ==
    /\ N = 3
    /\ Len(children) = 3
    /\ pc = "closeWrite"
    /\ children[1].stdin = NoFd
    /\ children[2].stdout = nextPipe(1, 1)
    /\ children[3].stdin = nextPipe(1, 0)
    /\ children[3].stdout = outPipe(1)

\* C23: when the command of a stage starts, its process holds no pipe
\* descriptor besides its three standard descriptors: no read end of a
\* collector, no read end of the next pipe, and in a stage that is not the
\* last no write end of the output collector.
C23_ChildHoldsNoPipeDescriptor ==
    N >= 2 => \A k \in DOMAIN children : children[k].open = {}

\* The states of a stage's child that runs or has ended.
ChildStates == {"running", "blocked", "detached", "terminated", "reaped"}

\* C24: a forked stage child never goes on in the control flow of its
\* parent: it runs its command and ends, and when it ends by exiting its
\* exit status is an exit code of its stage's command.
C24_ChildEndsWithStageCode ==
    N >= 2 =>
        \A k \in DOMAIN children :
           /\ children[k].state \in ChildStates
           /\ children[k].status.kind = "exited" =>
                 \E o \in executeArgv(stages[k]) :
                    children[k].status.val = o.res.exitCode

\* The first stage of two ended with the exit code of a command that was
\* not found while the parent was still forking.
C24_Witness ==
    /\ N = 2
    /\ pc = "fork"
    /\ Len(children) = 1
    /\ children[1].state = "terminated"
    /\ children[1].status = Exited(127)
    /\ ~findInPath(stages[1][1])

\* C25: what the command of a stage wrote to its buffered standard output
\* is flushed before the stage's process ends by exiting.
C25_OutputFlushedBeforeExit ==
    N >= 2 =>
        \A k \in DOMAIN children :
           children[k].status.kind = "exited" => children[k].unflushed = <<>>

\* The processes the commands of the first k stages created in their own
\* processes, and the waitpid calls they made there.
RECURSIVE StageForks(_)
StageForks(k) == IF k = 0 THEN 0 ELSE children[k].forks + StageForks(k - 1)

RECURSIVE StageWaits(_)
StageWaits(k) == IF k = 0 THEN 0 ELSE children[k].waits + StageWaits(k - 1)

\* C26: a pipeline of N stages that was spawned in full and waited for
\* created exactly N processes in total, one per stage whether the stage is
\* a builtin or an external program, and exactly N waitpid calls were made.
C26_OneProcessPerStage ==
    FullyWaited =>
        /\ nforks + StageForks(N) = N
        /\ waitIndex + StageWaits(N) = N

\* C27: the Environment differs from what it was when the call started only
\* after a single stage made of assignments alone was handled: a call with
\* two or more stages, stages of the form NAME=value included, and a single
\* stage that is a builtin, an external program or fails leave it as it was.
C27_OnlyAssignmentLineChangesEnv ==
    env_ # envPrev =>
        /\ impl = "shell"
        /\ pc = "ret"
        /\ N = 0
        /\ SingleStage
        /\ AllAssignments(ArgvOfCall)

\* A pipeline of two assignment stages has run to its end.
C27_Witness ==
    /\ FullyWaited
    /\ N = 2
    /\ IsAssignment(stages[1][1])
    /\ IsAssignment(stages[2][1])
    /\ env_ = envPrev

\* The lines of the log, in order.
LoggedLines == [i \in DOMAIN runLog |-> runLog[i].line]

\* C28: Shell::run passes the lines of its input to executeLine in their
\* order; it returns only at the end of the input, with 0, or after the first
\* line whose result has shouldExit, with that line's exit code, and then no
\* later line is executed; a line that ended with exit code 2 or 127 and
\* without shouldExit is followed by the rest of the input.
C28_RunStopsAtExitOrEnd ==
    /\ LoggedLines \o inStream = script
    /\ \A i \in 1..(Len(runLog) - 1) : ~runLog[i].res.shouldExit
    /\ runReturn # NoReturn <=> pc = "done"
    /\ pc = "done" =>
          \/ /\ runLog # <<>>
             /\ runLog[Len(runLog)].res.shouldExit
             /\ runReturn = runLog[Len(runLog)].res.exitCode
          \/ /\ inStream = <<>>
             /\ \A i \in DOMAIN runLog : ~runLog[i].res.shouldExit
             /\ runReturn = 0

\* A pipeline whose setup failed, then exit, then a line that is left
\* unread: run has returned after the second line.
C28_Witness ==
    /\ pc = "done"
    /\ Len(runLog) = 2
    /\ Len(runLog[1].line) > 4
    /\ runLog[1].res = ExecResult(127, FALSE)
    /\ runLog[2].res.shouldExit
    /\ inStream # <<>>
    /\ runReturn = 0

PipeAt(i) == parseArg[i].type = "Pipe"

\* The sequence starts with a Pipe, ends with one, or has two in a row.
PipeOutOfPlace ==
    /\ parseArg # <<>>
    /\ \/ PipeAt(1)
       \/ PipeAt(Len(parseArg))
       \/ \E i \in 1..(Len(parseArg) - 1) : PipeAt(i) /\ PipeAt(i + 1)

IsWord(t) == t.type = "Word"

\* The texts of the Word tokens, in their order.
WordTexts ==
    LET w == SelectSeq(parseArg, IsWord) IN [i \in DOMAIN w |-> w[i].text]

RECURSIVE Flatten(_)
Flatten(ss) == IF ss = <<>> THEN <<>> ELSE Head(ss) \o Flatten(Tail(ss))

\* C29: Parser::parse fails exactly when the token sequence starts with a
\* Pipe, ends with a Pipe or has two adjacent Pipes; otherwise every stage
\* it returns is non-empty, there is one stage more than there are Pipe
\* tokens (none for the empty sequence), and the stages joined in order are
\* the texts of the Word tokens in their order.
C29_ParseStagesOrFails ==
    pc = "parsed" =>
        /\ ~returned.ok <=> PipeOutOfPlace
        /\ returned.ok =>
              /\ \A k \in DOMAIN returned.stages : returned.stages[k] # <<>>
              /\ Len(returned.stages) =
                    IF parseArg = <<>> THEN 0
                    ELSE 1 + Cardinality({i \in DOMAIN parseArg : PipeAt(i)})
              /\ Flatten(returned.stages) = WordTexts

\* Two words, a Pipe and a word are parsed into two stages.
C29_Witness ==
    /\ pc = "parsed"
    /\ Len(parseArg) = 4
    /\ PipeAt(3)
    /\ returned.ok
    /\ Len(returned.stages) = 2
    /\ Len(returned.stages[1]) = 2

\* The quote state before character i of line l.
StateBefore(l, i) == QuoteStateFrom(SubSeq(l, 1, i - 1), 1, "Normal")

\* The positions of whitespace outside quotes, of the quote characters that
\* open or close a quoted text, and of every other character.
Separators(l) ==
    {i \in DOMAIN l : StateBefore(l, i) = "Normal" /\ l[i] \in {" ", "\t"}}

QuoteMarks(l) ==
    {i \in DOMAIN l :
        \/ StateBefore(l, i) = "Normal" /\ l[i] \in {"'", "\""}
        \/ StateBefore(l, i) = "InSingle" /\ l[i] = "'"
        \/ StateBefore(l, i) = "InDouble" /\ l[i] = "\""}

Kept(l) == DOMAIN l \ (Separators(l) \cup QuoteMarks(l))

\* No whitespace outside quotes stands between positions i and j.
Joined(l, i, j) == \A x \in Separators(l) : ~(i < x /\ x < j)

\* The kept positions that no kept position before them is joined to.
WordStarts(l) ==
    {i \in Kept(l) : \A j \in Kept(l) : j < i => ~Joined(l, j, i)}

\* The characters of l at the positions P, in their order.
CharsAt(l, P) ==
    [k \in 1..Cardinality(P) |->
        l[CHOOSE i \in P : Cardinality({j \in P : j < i}) = k - 1]]

\* The arguments the claim describes: one for each stretch of characters
\* that whitespace outside quotes does not interrupt, without the quote
\* characters, and none for a stretch that keeps no character.
QuotedArgv(l) ==
    [m \in 1..Cardinality(WordStarts(l)) |->
        LET st == CHOOSE i \in WordStarts(l) :
                     Cardinality({j \in WordStarts(l) : j < i}) = m - 1
        IN  CharsAt(l, {j \in Kept(l) : j >= st /\ Joined(l, st, j)})]

\* C30: in the arguments Tokenizer::tokenize returns, whitespace inside
\* single or double quotes does not split a word, the quote characters are
\* removed, quoted and unquoted fragments with no unquoted whitespace
\* between them form one argument, and unquoted whitespace, however long
\* the run, leaves no empty argument.  The tokenizer of executeLine gives
\* the same arguments for a line without '$' and '|'.
C30_QuotingKeepsWords ==
    (pc = "tokenized" /\ returned.ok) =>
        /\ returned.argv = QuotedArgv(input)
        /\ \A k \in DOMAIN returned.argv : returned.argv[k] # <<>>
        /\ tokenizeWithPipesAndExpansion(input, env_).ok
        /\ tokenizeWithPipesAndExpansion(input, env_).argv = returned.argv

\* An unquoted letter, a quoted blank and a letter are one argument.
C30_Witness ==
    /\ pc = "tokenized"
    /\ returned.ok
    /\ Len(input) = 5
    /\ input[3] = " "
    /\ returned.argv = << <<"a", " ", "a">> >>

\* A line of words and blanks only: no quote, no bar.
PlainLine(l) == \A i \in DOMAIN l : l[i] \notin {"'", "\"", "|", "\t"}

\* The words of a plain line from position i on, cur being the word begun.
RECURSIVE BlankSeparated(_, _, _)
BlankSeparated(l, i, cur) ==
    LET done == IF cur = <<>> THEN <<>> ELSE <<cur>> IN
    IF i > Len(l) THEN done
    ELSE IF l[i] = " " THEN done \o BlankSeparated(l, i + 1, <<>>)
    ELSE BlankSeparated(l, i + 1, Append(cur, l[i]))

\* The words of a plain line, each expanded against e; a word that expands
\* to nothing is no word.
ExpandedWords(l, e) ==
    LET w == BlankSeparated(l, 1, <<>>)
        x == [k \in DOMAIN w |-> Expand(w[k], e)]
    IN  SelectSeq(x, LAMBDA v : v # <<>>)

WordsOfCall == ExpandedWords(input, envPrev)

\* C31: within one call every $NAME is expanded against the Environment as
\* it was before the call: on a line of assignments each name receives the
\* value written for it with the references replaced by the values of
\* before the call, nothing for an unset name, also when the line itself
\* assigns the name referred to; the new value is seen by the next call.
C31_ExpansionSeesEnvBeforeCall ==
    (Returned /\ PlainLine(input)) =>
        LET w == WordsOfCall IN
        (w # <<>> /\ AllAssignments(w)) =>
            /\ DOMAIN env_ = DOMAIN envPrev \cup AssignedNames(w)
            /\ \A n \in AssignedNames(w) : env_[n] = LastValue(w, n)

\* The line a=1 b=$a, called twice with a unset at first: b received
\* nothing in the first call and 1 in the second.
C31_Witness ==
    /\ Returned
    /\ calls = 2
    /\ Len(input) = 8
    /\ input[1] = "a"
    /\ input[5] = "b"
    /\ <<"a">> \notin DOMAIN envAt[1]
    /\ envAt[2][<<"b">>] = <<>>
    /\ envAt[2][<<"a">>] = <<"1">>
    /\ env_[<<"b">>] = <<"1">>

\* C32: the two front ends agree on every line and Environment:
\* Parser::parse of Lexer::tokenize rejects the line exactly when
\* Shell::executeLine rejects it with exit code 2, and otherwise both build
\* the same list of stages.
C32_FrontEndsAgree ==
    pc = "start" =>
        LET s == executeLine_parse(input, env_)
            p == lexAndParse(input, env_)
        IN  /\ s.ok <=> p.ok
            /\ s.ok => s.stages = p.stages

====
